---- MODULE Spec2Model ----
(***************************************************************************)
(* Session engine, conversation strategies and prompt construction of the  *)
(* ticktick-ai server (src/session.py, src/server/agent_strategy.py,       *)
(* src/server/agent_manager.py, src/server/agent_manager1.py).             *)
(*                                                                         *)
(* A text is a sequence of chunks (strings); concatenation is \o, the      *)
(* empty text is << >>.  The reasoning pipeline, the summarizer and the    *)
(* direct agent are external: what they emit is chosen nondeterministically*)
(* from small sets.                                                        *)
(***************************************************************************)
EXTENDS Integers, Sequences, FiniteSets, TLC

VARIABLES
    units,      \* the Session objects a caller drives directly, each with its pipeline and input queue
    lastMsg,    \* SessionResult.<member>.last_message: one attribute per enum member, process-wide
    ret,        \* the last completed call and what it returned or raised
    team,       \* the TeamAgentStrategy object
    direct,     \* the DirectAgentStrategy object with its AgentManager
    handlers,   \* the SessionHandler objects, one per mode (use_direct_agent)
    now,        \* datetime.now(), in ticks
    tokenFile,  \* ticktick_token.json
    client,     \* the TickTickClient object
    server,     \* the task tracker behind the REST interface
    auth,       \* the authorization flow: the local listener and OAuthCallbackHandler.auth_code
    cli,        \* the authorization utility (authenticate.py main)
    audio_dir,  \* the files of AudioProcessor.audio_dir
    socket,     \* one connection of the /ws endpoint of server.py: its Session and the frames sent
    console,    \* a ConsoleHandler and the list its caller got from get_messages
    inbound     \* the payload a client recorded and sends, NoFrame if there is none

\* the variables of the task client facade and its authorization utility
facadeVars == <<now, tokenFile, client, server, auth, cli>>

\* the variables of the audio preprocessor and the transports
wireVars == <<audio_dir, socket, console, inbound>>

vars == <<units, lastMsg, ret, team, direct, handlers, wireVars, facadeVars>>

(* ------------------------------ bounds -------------------------------- *)

\* events other than the terminating one that a single advance may consume
MaxBatch == 2
\* longest transcript of a Session
MaxHistory == 2
\* longest input queue
MaxQueue == 1
\* number of Session objects the Team strategy may create
MaxInits == 2
\* exchanges the direct agent may log
MaxExchanges == 3
\* ticks of the clock
MaxTime == 2
\* projects the server may hold
MaxProjects == 2
\* tasks the server may ever create
MaxTasks == 1
\* timeouts of the local listener during one authorization flow
MaxTimeouts == 2
\* bytes of a recording
MaxBytes == 4
\* exchanges of a connection that is fed raw frames; frames sent to a connection
MaxFrames == 1
MaxSent == 2
\* calls of send_message and send_error on one in-memory handler
MaxEntries == 3
\* messages waiting in the input queue of the Team strategy's Session
MaxPending == 2

(* ------------------------------ values -------------------------------- *)

None == "None"
\* an argument the caller did not pass
Missing == "Missing"
\* Session.stream before start: no stream
NoStream == 0

SessionIds == {"s1", "s2"}
\* the Session of one connection
OneSession == {"s1"}
Handlers == {"console_handler"}
TaskTexts == {<<"task">>}
UserTexts == {<<"u1">>}

USER_INPUT_REQUESTED == "user_input_requested"
FINISHED == "finished"
SessionResult == {USER_INPUT_REQUESTED, FINISHED}

\* the events a pipeline stream yields before it stops a loop
TextMessage(content, source) == [kind |-> "TextMessage", content |-> content, source |-> source]
UserInputRequestedEvent == [kind |-> "UserInputRequestedEvent", content |-> "", source |-> "user"]
OtherEvent == [kind |-> "ToolCallEvent", content |-> "call", source |-> "assistant"]
TextEvents == {TextMessage("m1", "assistant"), TextMessage("m2", "user")}
PassingEvents == TextEvents \cup {OtherEvent}
\* how the stream goes on after the passing events of one advance
Terminators == {"input", "end", "raise"}

\* a Python value that is a str, a list holding one str, or None
Str(text) == [kind |-> "str", text |-> text]
ListOf(text) == [kind |-> "list", text |-> text]
NoValue == [kind |-> "None", text |-> << >>]
\* bool(value), as `if history_digest:` takes it
Truthy(value) == value.kind = "list" \/ (value.kind = "str" /\ value.text # << >>)
\* str.format of a value: a str as it is, a list by its repr
Format(value) ==
    IF value.kind = "list" THEN <<"['">> \o value.text \o <<"']">>
    ELSE IF value.kind = "str" THEN value.text
    ELSE <<"None">>

Placeholder == <<"no conversation history available">>
Summaries == {<<"d1">>}

RECURSIVE SeqsUpTo(_, _)
SeqsUpTo(S, n) ==
    IF n = 0 THEN {<< >>}
    ELSE LET shorter == SeqsUpTo(S, n - 1)
         IN  shorter \cup {Append(q, x) : q \in {r \in shorter : Len(r) = n - 1}, x \in S}

Last(q) == q[Len(q)]

\* the passing events one advance may meet
Batches == SeqsUpTo(PassingEvents, MaxBatch)

(* --------------------------- Session engine --------------------------- *)

NewSession ==
    [is_active |-> FALSE, message_handler |-> None, stream |-> NoStream, text_history |-> << >>]

\* the team (pipeline) behind a Session: runs opened, the task of the run, where the run stands
NewPipe == [runs |-> 0, task |-> << >>, phase |-> "unopened", got |-> << >>]

NewUnit == [session |-> NewSession, pipe |-> NewPipe, queue |-> << >>]

\* team.run_stream(task=text): a new run of the pipeline; the handle names the run
run_stream(pipe, text) ==
    [pipe EXCEPT !.runs = @ + 1, !.task = text, !.phase = "running"]

SessionStart_NoGuard(u, text, message_handler) ==
    IF message_handler = Missing
    THEN [unit |-> u, raised |-> "TypeError"]
    ELSE [unit |-> [u EXCEPT !.session.message_handler = message_handler,
                             !.session.stream = u.pipe.runs + 1,
                             !.session.is_active = TRUE,
                             !.pipe = run_stream(u.pipe, text)],
          raised |-> None]

SessionStart(u, text, message_handler) ==
    IF message_handler = Missing
    THEN [unit |-> u, raised |-> "TypeError"]
    ELSE IF u.session.is_active
    THEN [unit |-> u, raised |-> None]
    ELSE [unit |-> [u EXCEPT !.session.message_handler = message_handler,
                             !.session.stream = u.pipe.runs + 1,
                             !.session.is_active = TRUE,
                             !.pipe = run_stream(u.pipe, text)],
          raised |-> None]


RECURSIVE IterateStream_NoBreak(_, _, _)
IterateStream_NoBreak(text_history, emitted, i) ==
    IF i > Len(emitted)
    THEN [text_history |-> text_history, result |-> FINISHED, raised |-> None]
    ELSE LET message == emitted[i]
         IN  IF message.kind = "raise"
             THEN [text_history |-> text_history, result |-> FINISHED,
                   raised |-> "PipelineFailure"]
             ELSE IF message.kind = "TextMessage"
             THEN IterateStream_NoBreak(
                      Append(text_history, <<message.content, message.source>>),
                      emitted, i + 1)
             ELSE IterateStream_NoBreak(text_history, emitted, i + 1)

\* one step of `async for message in self.stream` and the two branches of its body
RECURSIVE IterateStream(_, _, _)
IterateStream(text_history, emitted, i) ==
    IF i > Len(emitted)
    THEN [text_history |-> text_history, result |-> FINISHED, raised |-> None]
    ELSE LET message == emitted[i]
         IN  IF message.kind = "raise"
             THEN [text_history |-> text_history, result |-> FINISHED,
                   raised |-> "PipelineFailure"]
             ELSE IF message.kind = "TextMessage"
             THEN IterateStream(Append(text_history, <<message.content, message.source>>),
                                emitted, i + 1)
             ELSE IF message.kind = "UserInputRequestedEvent"
             THEN [text_history |-> text_history, result |-> USER_INPUT_REQUESTED,
                   raised |-> None]
             ELSE IterateStream(text_history, emitted, i + 1)

\* what the stream yields to one advance: the passing events, then what stops the loop
Emission(evs, term) ==
    evs \o (IF term = "input" THEN <<UserInputRequestedEvent>>
            ELSE IF term = "raise" THEN <<[kind |-> "raise", content |-> "", source |-> ""]>>
            ELSE << >>)

\* the pipeline side of one advance: a run that asked for input takes the head of the
\* queue (user_input awaits user_input_queue.get()) before it goes on; got is the
\* input it took last
PipeAfter(u, loop) ==
    LET took == u.pipe.phase = "awaiting"
    IN  [unit |-> [u EXCEPT
            !.pipe.phase = IF loop.raised = None /\ loop.result = USER_INPUT_REQUESTED
                           THEN "awaiting" ELSE "ended",
            !.pipe.got = IF took THEN Head(u.queue) ELSE @,
            !.queue = IF took THEN Tail(@) ELSE @]]

\* the write of last_message on the enum member that is returned
SetLastMessage(lm, result, text_history) ==
    IF text_history # << >>
    THEN [lm EXCEPT ![result] = Last(text_history)[1]]
    ELSE lm

RunUntilStop_ResetsActive(u, lm, evs, term) ==
    IF u.session.stream = NoStream
    THEN [unit |-> u, lm |-> lm, result |-> None, raised |-> "TypeError"]
    ELSE LET loop == IterateStream(u.session.text_history, Emission(evs, term), 1)
             after == [PipeAfter(u, loop).unit EXCEPT
                          !.session.text_history = loop.text_history,
                          !.session.is_active = loop.result # FINISHED]
         IN  IF loop.raised # None
             THEN [unit |-> after, lm |-> lm, result |-> None, raised |-> loop.raised]
             ELSE [unit |-> after,
                   lm |-> SetLastMessage(lm, loop.result, loop.text_history),
                   result |-> loop.result, raised |-> None]

RunUntilStop(u, lm, evs, term) ==
    IF u.session.stream = NoStream
    THEN [unit |-> u, lm |-> lm, result |-> None, raised |-> "TypeError"]
    ELSE LET loop == IterateStream(u.session.text_history, Emission(evs, term), 1)
             after == [PipeAfter(u, loop).unit EXCEPT
                          !.session.text_history = loop.text_history]
         IN  IF loop.raised # None
             THEN [unit |-> after, lm |-> lm, result |-> None, raised |-> loop.raised]
             ELSE [unit |-> after,
                   lm |-> SetLastMessage(lm, loop.result, loop.text_history),
                   result |-> loop.result, raised |-> None]

\* what a stream can yield to an advance, given where its run stands
CanEmit(u, evs, term) ==
    /\ evs \in Batches
    /\ term \in Terminators
    /\ u.session.stream = NoStream => evs = << >> /\ term = "end"
    /\ u.pipe.phase = "ended" => evs = << >> /\ term = "end"
    /\ u.pipe.phase = "awaiting" => u.queue # << >>
    /\ Len(u.session.text_history)
         + Cardinality({i \in 1..Len(evs) : evs[i].kind = "TextMessage"}) <= MaxHistory

\* Session.digest: the placeholder for an empty transcript, else the summarizer's answer
SessionDigest_AlwaysSummarize(u, summary, fails) ==
    IF fails
    THEN [value |-> NoValue, summarized |-> TRUE, raised |-> "PipelineFailure"]
    ELSE [value |-> Str(summary), summarized |-> TRUE, raised |-> None]

SessionDigest(u, summary, fails) ==
    IF u.session.text_history = << >>
    THEN [value |-> ListOf(Placeholder), summarized |-> FALSE, raised |-> None]
    ELSE IF fails
    THEN [value |-> NoValue, summarized |-> TRUE, raised |-> "PipelineFailure"]
    ELSE [value |-> Str(summary), summarized |-> TRUE, raised |-> None]

\* UserInputHelper.recv_user_input: put on the queue, whatever the Session's state
recv_user_input(u, text) == [u EXCEPT !.queue = Append(@, text)]

(* ------------------------ prompt construction ----------------------- *)

TeamBackground ==
    <<"\n    ## Background Information\n    User's previous requests have been summarized as follows:\n    ">>
TeamBackgroundEnd == <<"\n    ">>
DirectBackground == <<"\n\n## Background Information\nPrevious conversations summary: ">>

\* AgentManager.task_prompt of the Team strategy
task_prompt_DigestFirst(user_request, history_digest) ==
    IF Truthy(history_digest)
    THEN Format(history_digest) \o <<"\n\n">> \o user_request
    ELSE user_request

task_prompt(user_request, history_digest) ==
    IF Truthy(history_digest)
    THEN user_request \o TeamBackground \o Format(history_digest) \o TeamBackgroundEnd
    ELSE user_request

\* the prompt AgentManager.process_message of the Direct strategy builds
direct_prompt(user_message, history_digest) ==
    IF Truthy(history_digest)
    THEN user_message \o DirectBackground \o Format(history_digest)
    ELSE user_message

(* --------------------------- Team strategy ---------------------------- *)

\* TeamAgentStrategy.__init__: no Session yet, an empty digest; inits counts the
\* Sessions initialize has created, the last of which is unit
NewTeamStrategy ==
    [has_session |-> FALSE, unit |-> NewUnit, history_digest |-> Str(<< >>), inits |-> 0]

initialize_KeepsInputHelper(t) ==
    [t EXCEPT !.has_session = TRUE, !.unit = [NewUnit EXCEPT !.queue = t.unit.queue],
              !.inits = @ + 1]

\* TeamAgentStrategy.initialize: new agents, a new team, a new Session, a new input helper
initialize(t) ==
    [t EXCEPT !.has_session = TRUE, !.unit = NewUnit, !.inits = @ + 1]

\* the line `if result.last_message:`
TruthyMessage(last_message) == last_message # None /\ last_message # ""

\* TeamAgentStrategy.process_message from the advance on
TeamAdvance(t, lm, u, calls, evs, term, summary, fails) ==
    LET run == RunUntilStop(u, lm, evs, term)
        ran == Append(calls, "run_until_stop")
    IN  IF run.raised # None
        THEN [team |-> [t EXCEPT !.unit = run.unit], lm |-> run.lm, status |-> None,
              value |-> NoValue, raised |-> run.raised, calls |-> ran]
        ELSE IF run.result = FINISHED
        THEN LET d == SessionDigest(run.unit, summary, fails)
             IN  IF d.raised # None
                 THEN [team |-> [t EXCEPT !.unit = run.unit], lm |-> run.lm,
                       status |-> None, value |-> NoValue, raised |-> d.raised,
                       calls |-> Append(ran, "digest")]
                 ELSE [team |-> initialize([t EXCEPT !.history_digest = d.value]),
                       lm |-> run.lm, status |-> FINISHED, value |-> d.value,
                       raised |-> None,
                       calls |-> ran \o <<"digest", "initialize">>]
        ELSE IF TruthyMessage(run.lm[run.result])
        THEN [team |-> [t EXCEPT !.unit = run.unit], lm |-> run.lm,
              status |-> run.result, value |-> Str(<<run.lm[run.result]>>),
              raised |-> None, calls |-> ran]
        ELSE [team |-> [t EXCEPT !.unit = run.unit], lm |-> run.lm, status |-> None,
              value |-> NoValue, raised |-> None, calls |-> ran]

\* TeamAgentStrategy.process_message: start is called with the task text alone
TeamProcess(t, lm, text, evs, term, summary, fails) ==
    LET t0 == IF ~t.has_session THEN initialize(t) ELSE t
        c0 == IF ~t.has_session THEN <<"initialize">> ELSE << >>
    IN  IF ~t0.unit.session.is_active
        THEN LET st == SessionStart(t0.unit, task_prompt(text, t0.history_digest), Missing)
             IN  IF st.raised # None
                 THEN [team |-> [t0 EXCEPT !.unit = st.unit], lm |-> lm, status |-> None,
                       value |-> NoValue, raised |-> st.raised,
                       calls |-> Append(c0, "start")]
                 ELSE TeamAdvance(t0, lm, st.unit, Append(c0, "start"),
                                  evs, term, summary, fails)
        ELSE TeamAdvance(t0, lm, recv_user_input(t0.unit, text),
                         Append(c0, "recv_user_input"), evs, term, summary, fails)

\* whether process_message gets as far as the advance, and on which unit
TeamReachesAdvance(t) == t.has_session /\ t.unit.session.is_active

(* -------------------------- Direct strategy --------------------------- *)

\* the conversation-ending markers; the localized one stands for the two-character
\* Chinese word of the source
Goodbye == "goodbye"
LocalizedGoodbye == "zai jian"
Responses == {<<"done.">>, <<"ok,", "Goodbye">>, <<"zai jian">>}

\* str.lower on a chunk
Lower(chunk) == IF chunk \in {"Goodbye", "GOODBYE"} THEN "goodbye" ELSE chunk
LowerText(text) == [i \in 1..Len(text) |-> Lower(text[i])]
Contains(text, marker) == \E i \in 1..Len(text) : text[i] = marker

EndsConversation_CaseSensitive(response) ==
    Contains(response, Goodbye) \/ Contains(response, LocalizedGoodbye)

\* the test `"goodbye" in response.lower() or <localized marker> in response`
EndsConversation(response) ==
    Contains(LowerText(response), Goodbye) \/ Contains(response, LocalizedGoodbye)

\* whether the next message opens a round: nothing logged yet, or the last response
\* ended the conversation
RoundStarts(history) ==
    \/ history = << >>
    \/ Last(history)[1] = "assistant" /\ EndsConversation(Last(history)[2])

\* DirectAgentStrategy.__init__ with its AgentManager: no assistant, an empty log
NewDirectStrategy ==
    [assistant |-> FALSE, history |-> << >>, history_digest |-> Str(<< >>)]

\* AgentManager.init_agent: a new task manager, model client and assistant; the log
\* of exchanges is not touched
init_agent(d) == [d EXCEPT !.assistant = TRUE]

\* AgentManager.generate_digest
generate_digest(history, summary, fails) ==
    IF history = << >>
    THEN [value |-> Str(Placeholder), summarized |-> FALSE, raised |-> None]
    ELSE IF fails
    THEN [value |-> NoValue, summarized |-> TRUE, raised |-> "PipelineFailure"]
    ELSE [value |-> Str(summary), summarized |-> TRUE, raised |-> None]

\* DirectAgentStrategy.process_message with AgentManager.process_message inlined:
\* response is the assistant's answer, answers tells whether on_messages returned,
\* passes counts the calls of the summarizer
DirectProcess(d, text, response, answers, summary, fails) ==
    LET prompt == direct_prompt(text, d.history_digest)
        asked == [d EXCEPT !.assistant = TRUE, !.history = Append(@, <<"user", prompt>>)]
        logged == [asked EXCEPT !.history = Append(@, <<"assistant", response>>)]
    IN  IF ~answers
        THEN [direct |-> asked, prompt |-> prompt, status |-> None, value |-> NoValue,
              raised |-> "PipelineFailure", passes |-> 0]
        ELSE IF EndsConversation(response)
        THEN LET g == generate_digest(logged.history, summary, fails)
                 passes == IF g.summarized THEN 1 ELSE 0
             IN  IF g.raised # None
                 THEN [direct |-> logged, prompt |-> prompt, status |-> None,
                       value |-> NoValue, raised |-> g.raised, passes |-> passes]
                 ELSE [direct |-> [logged EXCEPT !.history_digest = g.value],
                       prompt |-> prompt, status |-> FINISHED, value |-> Str(response),
                       raised |-> None, passes |-> passes]
        ELSE [direct |-> logged, prompt |-> prompt, status |-> USER_INPUT_REQUESTED,
              value |-> Str(response), raised |-> None, passes |-> 0]

(* --------------------------- Session handler -------------------------- *)

\* an inbound frame: a text (possibly empty), or an encoded audio payload, which
\* starts with "data:"
TextFrame(text) == [kind |-> "text", text |-> text]
AudioFrame == [kind |-> "audio", text |-> <<"data:">>]
Frames == {TextFrame(text) : text \in UserTexts \cup {<< >>}} \cup {AudioFrame}

\* how AudioProcessor.process_audio ends: with a transcript, which may be empty, or
\* with the exception it re-raises
Hearings ==
    {[raised |-> None, text |-> text] : text \in UserTexts \cup {<< >>}}
        \cup {[raised |-> "AudioFailure", text |-> << >>]}

\* SessionHandler.__init__: the fields of both modes; inits, unit and has_session
\* stand for self.session and self.user_input_helper, assistant and history for the
\* direct agent manager
NewSessionHandler(use_direct_agent) ==
    [use_direct_agent |-> use_direct_agent, has_session |-> FALSE, unit |-> NewUnit,
     history_digest |-> Str(<< >>), inits |-> 0, assistant |-> FALSE, history |-> << >>]

\* SessionHandler.initialize
SessionHandlerInitialize(h) ==
    IF h.use_direct_agent THEN [h EXCEPT !.assistant = TRUE] ELSE initialize(h)

\* what the direct branch and the team branch of handle_message hand back
DirectBranch(lm, r) ==
    [handler |-> r.direct, lm |-> lm, status |-> r.status, value |-> r.value,
     raised |-> r.raised]
TeamBranch(r) ==
    [handler |-> r.team, lm |-> r.lm, status |-> r.status, value |-> r.value,
     raised |-> r.raised]

\* the body of the try block of SessionHandler.handle_message; its two branches are
\* the statements of the two strategies' process_message
HandleMessageBody(h, lm, data, heard, response, answers, evs, term, summary, fails) ==
    LET h0 == IF \/ ~h.use_direct_agent /\ ~h.has_session
                 \/ h.use_direct_agent /\ ~h.assistant
              THEN SessionHandlerInitialize(h) ELSE h
        text == IF data.kind = "audio" THEN heard.text ELSE data.text
    IN  IF data.kind = "audio" /\ heard.raised # None
        THEN [handler |-> h0, lm |-> lm, status |-> None, value |-> NoValue,
              raised |-> heard.raised]
        ELSE IF text = << >>
        THEN [handler |-> h0, lm |-> lm, status |-> None, value |-> NoValue,
              raised |-> None]
        ELSE IF h0.use_direct_agent
        THEN DirectBranch(lm, DirectProcess(h0, text, response, answers, summary, fails))
        ELSE TeamBranch(TeamProcess(h0, lm, text, evs, term, summary, fails))

ErrorStatus == "error"
ErrorMessage(e) == Str(<<"Error processing request: ", e>>)

ExceptException_Absent(b) ==
    [handler |-> b.handler, lm |-> b.lm, status |-> b.status, value |-> b.value,
     raised |-> b.raised, caught |-> None]

\* `except Exception as e` around the body b: the error status and message
ExceptException(b) ==
    IF b.raised # None
    THEN [handler |-> b.handler, lm |-> b.lm, status |-> ErrorStatus,
          value |-> ErrorMessage(b.raised), raised |-> None, caught |-> b.raised]
    ELSE [handler |-> b.handler, lm |-> b.lm, status |-> b.status,
          value |-> b.value, raised |-> None, caught |-> None]

\* SessionHandler.handle_message
handle_message(h, lm, data, heard, response, answers, evs, term, summary, fails) ==
    ExceptException(HandleMessageBody(h, lm, data, heard, response, answers, evs, term,
                                      summary, fails))

(* -------------------------- task client facade ------------------------ *)

\* no id: None where the source holds an id
NoId == 0
\* no project name given
NoName == ""
Tokens == {"tok1"}
\* expires_in of the tokens the authorization server grants, in ticks
Lifetimes == {1}
\* the names callers ask for, and the names projects are given at the server
ProjectNames == {"work"}
ServerNames == {"Work"}
Titles == {"t1"}
NewTitles == {"t2"}
\* the status a request meets at the server when the data it asks for exist
OK == 200
Unauthorized == 401
StatusCodes == {OK, Unauthorized}

NotAuthenticated == "ValueError: Not authenticated. Please authenticate first."
NoProjectId == "ValueError: No project ID available"
ProjectNotFound == "ValueError: Project not found"
TaskNotFound == "ValueError: Task not found"
InvalidToken == "Exception: Unauthorized: Invalid access token"
HTTPError == "HTTPError"

\* str.lower on a project name
LowerName(name) ==
    IF name = "Work" THEN "work" ELSE IF name = "Home" THEN "home" ELSE name

\* ticktick_token.json: absent, or the token info save_token wrote
AbsentFile == [kind |-> "absent", access_token |-> None, expires_at |-> 0]
TokenInfo(access_token, expires_at) ==
    [kind |-> "token", access_token |-> access_token, expires_at |-> expires_at]
\* a file json.load or the lookup of its keys fails on
UnparseableFile == [kind |-> "unparseable", access_token |-> None, expires_at |-> 0]

\* TickTickClient.__init__ up to load_token; NoClient: no facade constructed yet
NewClient ==
    [constructed |-> TRUE, access_token |-> None, projects |-> << >>, inbox_id |-> NoId]
NoClient == [NewClient EXCEPT !.constructed = FALSE]

\* the account at the server: the project list in listing order, the tasks, and the
\* number of tasks ever created (ids are not reused)
NewServer == [projects |-> << >>, tasks |-> << >>, born |-> 0]
Project(id, name, kind) == [id |-> id, name |-> name, kind |-> kind]
Task(id, projectId, title) == [id |-> id, projectId |-> projectId, title |-> title, status |-> 0]

\* no JSON body
NoPayload == [id |-> NoId]

\* optional fields of a task as the server returns it
TaskDetails ==
    {[content |-> "c1"],
     [content |-> "c1", priority |-> 5],
     [content |-> "c1", dueDate |-> "d1", priority |-> 1],
     [dueDate |-> "d1", sortOrder |-> 7]}

\* requests.get / post / delete with the Authorization header
Request(method, url, project, task, token) ==
    [method |-> method, url |-> url, project |-> project, task |-> task, token |-> token]

\* the responses the requests of one call meet, by position
Answers == [1..(MaxProjects + 1) -> StatusCodes]

\* next(...) over a list: the first of the indices that qualify, 0 if there is none
FirstIndex(hits) ==
    IF hits = {} THEN 0 ELSE CHOOSE i \in hits : \A j \in hits : i <= j

\* what a facade operation leaves behind when it raises
Failed(c, srv, requests, raised) ==
    [client |-> c, server |-> srv, requests |-> requests, raised |-> raised,
     id |-> NoId, ids |-> << >>]
Returned(c, srv, requests, id, ids) ==
    [client |-> c, server |-> srv, requests |-> requests, raised |-> None,
     id |-> id, ids |-> ids]

load_token_AcceptsAtExpiry(c, f, t) ==
    IF f.kind # "token"
    THEN [client |-> c, file |-> f, value |-> FALSE]
    ELSE IF t <= f.expires_at
    THEN [client |-> [c EXCEPT !.access_token = f.access_token], file |-> f, value |-> TRUE]
    ELSE [client |-> c, file |-> AbsentFile, value |-> FALSE]

load_token_KeepsExpiredFile(c, f, t) ==
    IF f.kind # "token"
    THEN [client |-> c, file |-> f, value |-> FALSE]
    ELSE IF t < f.expires_at
    THEN [client |-> [c EXCEPT !.access_token = f.access_token], file |-> f, value |-> TRUE]
    ELSE [client |-> c, file |-> f, value |-> FALSE]

\* TickTickClient.load_token at time t: no file or no token info in it, an unexpired
\* token, an expired one (the file is removed)
load_token(c, f, t) ==
    IF f.kind # "token"
    THEN [client |-> c, file |-> f, value |-> FALSE]
    ELSE IF t < f.expires_at
    THEN [client |-> [c EXCEPT !.access_token = f.access_token], file |-> f, value |-> TRUE]
    ELSE [client |-> c, file |-> AbsentFile, value |-> FALSE]

\* TickTickClient.save_token at time t
save_token(c, access_token, expires_in, t) ==
    [client |-> [c EXCEPT !.access_token = access_token],
     file |-> TokenInfo(access_token, t + expires_in)]

\* the id of the first listed project whose kind is INBOX
FirstInbox(projects) ==
    LET i == FirstIndex({j \in 1..Len(projects) : projects[j].kind = "INBOX"})
    IN  IF i = 0 THEN NoId ELSE projects[i].id

\* TickTickClient.load_projects: every exception is caught and printed
load_projects_ClearsOnFailure(c, srv, resp) ==
    IF c.access_token = None
    THEN Returned(c, srv, << >>, NoId, << >>)
    ELSE LET get == Request("GET", "/project", NoId, NoId, c.access_token)
         IN  IF resp = OK
             THEN Returned([c EXCEPT !.projects = srv.projects,
                                     !.inbox_id = IF FirstInbox(srv.projects) # NoId
                                                  THEN FirstInbox(srv.projects) ELSE @],
                           srv, <<get>>, NoId, << >>)
             ELSE Returned([c EXCEPT !.projects = << >>, !.inbox_id = NoId],
                           srv, <<get>>, NoId, << >>)

load_projects(c, srv, resp) ==
    IF c.access_token = None
    THEN Returned(c, srv, << >>, NoId, << >>)
    ELSE LET get == Request("GET", "/project", NoId, NoId, c.access_token)
         IN  IF resp = OK
             THEN Returned([c EXCEPT !.projects = srv.projects,
                                     !.inbox_id = IF FirstInbox(srv.projects) # NoId
                                                  THEN FirstInbox(srv.projects) ELSE @],
                           srv, <<get>>, NoId, << >>)
             ELSE Returned(c, srv, <<get>>, NoId, << >>)

\* the generator expression that looks a project name up in the cache
FindProject_CaseSensitive(projects, project_name) ==
    LET i == FirstIndex({j \in 1..Len(projects) : projects[j].name = project_name})
    IN  IF i = 0 THEN NoId ELSE projects[i].id

FindProject(projects, project_name) ==
    LET i == FirstIndex({j \in 1..Len(projects) :
                            LowerName(projects[j].name) = LowerName(project_name)})
    IN  IF i = 0 THEN NoId ELSE projects[i].id

\* self.projects[project['id']] = project
PutProject(projects, project) ==
    IF \E i \in 1..Len(projects) : projects[i].id = project.id
    THEN [i \in 1..Len(projects) |->
             IF projects[i].id = project.id THEN project ELSE projects[i]]
    ELSE Append(projects, project)

create_project_CacheNotUpdated(c, srv, name, resp) ==
    IF c.access_token = None
    THEN Failed(c, srv, << >>, NotAuthenticated)
    ELSE LET post == Request("POST", "/project", NoId, NoId, c.access_token)
             project == Project(Len(srv.projects) + 1, name, "TASK")
         IN  IF resp = OK
             THEN Returned(c, [srv EXCEPT !.projects = Append(@, project)],
                           <<post>>, project.id, << >>)
             ELSE Failed(c, srv, <<post>>, HTTPError)

\* TickTickClient.create_project
create_project(c, srv, name, resp) ==
    IF c.access_token = None
    THEN Failed(c, srv, << >>, NotAuthenticated)
    ELSE LET post == Request("POST", "/project", NoId, NoId, c.access_token)
             project == Project(Len(srv.projects) + 1, name, "TASK")
         IN  IF resp = OK
             THEN Returned([c EXCEPT !.projects = PutProject(@, project)],
                           [srv EXCEPT !.projects = Append(@, project)],
                           <<post>>, project.id, << >>)
             ELSE Failed(c, srv, <<post>>, HTTPError)

\* TickTickClient.create_task
create_task(c, srv, title, project_name, resps) ==
    IF c.access_token = None
    THEN Failed(c, srv, << >>, NotAuthenticated)
    ELSE LET lp == load_projects(c, srv, resps[1])
             found == IF project_name # NoName
                      THEN FindProject(lp.client.projects, project_name)
                      ELSE lp.client.inbox_id
             creates == project_name # NoName /\ found = NoId
             cp == create_project(lp.client, srv, project_name, resps[2])
             c2 == IF creates THEN cp.client ELSE lp.client
             srv2 == IF creates THEN cp.server ELSE srv
             sent == lp.requests \o (IF creates THEN cp.requests ELSE << >>)
             project_id == IF creates THEN cp.id ELSE found
             post == Request("POST", "/task", project_id, NoId, c.access_token)
             task == Task(srv2.born + 1, project_id, title)
         IN  IF creates /\ cp.raised # None
             THEN Failed(c2, srv2, sent, cp.raised)
             ELSE IF project_id = NoId
             THEN Failed(c2, srv2, sent, NoProjectId)
             ELSE IF resps[Len(sent) + 1] = OK
             THEN Returned([c2 EXCEPT !.inbox_id =
                                IF project_name = NoName /\ @ = NoId
                                THEN task.projectId ELSE @],
                           [srv2 EXCEPT !.tasks = Append(@, task), !.born = @ + 1],
                           Append(sent, post), task.id, << >>)
             ELSE Failed(c2, srv2, Append(sent, post), InvalidToken)

\* the ids of the tasks of a project, in the server's order
TasksOf(srv, project_id) ==
    LET tasks == SelectSeq(srv.tasks, LAMBDA k : k.projectId = project_id)
    IN  [i \in 1..Len(tasks) |-> tasks[i].id]

\* the concatenation of the sequences of a sequence
RECURSIVE Flatten(_)
Flatten(seqs) == IF seqs = << >> THEN << >> ELSE Head(seqs) \o Flatten(Tail(seqs))

\* TickTickClient.get_tasks
get_tasks(c, srv, project_name, resps) ==
    IF c.access_token = None
    THEN Failed(c, srv, << >>, NotAuthenticated)
    ELSE LET lp == load_projects(c, srv, resps[1])
             cached == lp.client.projects
             data(project_id) ==
                 Request("GET", "/project/{id}/data", project_id, NoId, c.access_token)
         IN  IF project_name # NoName
             THEN LET project_id == FindProject(cached, project_name)
                  IN  IF project_id = NoId
                      THEN Failed(lp.client, srv, lp.requests, ProjectNotFound)
                      ELSE IF resps[2] = OK
                      THEN Returned(lp.client, srv, Append(lp.requests, data(project_id)),
                                    NoId, TasksOf(srv, project_id))
                      ELSE Failed(lp.client, srv, Append(lp.requests, data(project_id)),
                                  InvalidToken)
             ELSE Returned(lp.client, srv,
                           lp.requests \o [i \in 1..Len(cached) |-> data(cached[i].id)],
                           NoId,
                           Flatten([i \in 1..Len(cached) |->
                                       IF resps[i + 1] = OK
                                       THEN TasksOf(srv, cached[i].id) ELSE << >>]))

\* the loop of update_task, delete_task and complete_task over self.projects.values():
\* get_task_by_id on each cached project in turn, exceptions skipped, until one
\* returns the task
ScanForTask(c, srv, task_id, resps) ==
    LET cached == c.projects
        holds(i) == /\ resps[i] = OK
                    /\ \E j \in 1..Len(srv.tasks) :
                          srv.tasks[j].id = task_id /\ srv.tasks[j].projectId = cached[i].id
        hits == {i \in 1..Len(cached) : holds(i)}
        hit == FirstIndex(hits)
        asked == IF hit = 0 THEN Len(cached) ELSE hit
    IN  [project_id |-> IF hit = 0 THEN NoId ELSE cached[hit].id,
         requests |-> [i \in 1..asked |->
                          Request("GET", "/project/{id}/task/{id}", cached[i].id, task_id,
                                  c.access_token)]]

\* what the server holds after it accepted a change of one task
WithTitle(srv, task_id, title) ==
    [srv EXCEPT !.tasks = [i \in 1..Len(@) |->
                              IF @[i].id = task_id THEN [@[i] EXCEPT !.title = title]
                              ELSE @[i]]]
Completed(srv, task_id) ==
    [srv EXCEPT !.tasks = [i \in 1..Len(@) |->
                              IF @[i].id = task_id THEN [@[i] EXCEPT !.status = 2]
                              ELSE @[i]]]
WithoutTask(srv, task_id) ==
    [srv EXCEPT !.tasks = SelectSeq(@, LAMBDA k : k.id # task_id)]

\* response.json() of the get_task_by_id that found the task
TaskById(srv, task_id) ==
    srv.tasks[FirstIndex({i \in 1..Len(srv.tasks) : srv.tasks[i].id = task_id})]

\* the keys update_task copies from the existing task
KeptKeys ==
    {"title", "content", "desc", "isAllDay", "startDate", "dueDate", "timeZone",
     "priority", "reminders", "items", "sortOrder"}

\* dict.update
DictUpdate(d, updates) ==
    [key \in DOMAIN d \cup DOMAIN updates |->
        IF key \in DOMAIN updates THEN updates[key] ELSE d[key]]

update_data_UpdatesOnly(task, task_id, project_id, updates) ==
    DictUpdate([id |-> task_id, projectId |-> project_id], updates)

\* the body update_task posts: id and projectId, the kept keys the existing task
\* has, then the updates over them
update_data(task, task_id, project_id, updates) ==
    DictUpdate(DictUpdate([id |-> task_id, projectId |-> project_id],
                          [key \in KeptKeys \cap DOMAIN task |-> task[key]]),
               updates)

\* the body of the update request of an update_task call, NoPayload if the call
\* sends none
SubmittedUpdate(c, srv, task_id, updates, resps) ==
    IF c.access_token = None
    THEN NoPayload
    ELSE LET scan == ScanForTask(c, srv, task_id, resps)
         IN  IF scan.project_id = NoId
             THEN NoPayload
             ELSE update_data(TaskById(srv, task_id), task_id, scan.project_id, updates)

\* TickTickClient.update_task with updates {title: title}
update_task(c, srv, task_id, title, resps) ==
    IF c.access_token = None
    THEN Failed(c, srv, << >>, NotAuthenticated)
    ELSE LET scan == ScanForTask(c, srv, task_id, resps)
             post == Request("POST", "/task/{id}", scan.project_id, task_id, c.access_token)
         IN  IF scan.project_id = NoId
             THEN Failed(c, srv, scan.requests, TaskNotFound)
             ELSE IF resps[Len(scan.requests) + 1] = OK
             THEN Returned(c, WithTitle(srv, task_id, title),
                           Append(scan.requests, post), task_id, << >>)
             ELSE Failed(c, srv, Append(scan.requests, post), InvalidToken)

\* TickTickClient.delete_task
delete_task(c, srv, task_id, resps) ==
    IF c.access_token = None
    THEN Failed(c, srv, << >>, NotAuthenticated)
    ELSE LET scan == ScanForTask(c, srv, task_id, resps)
             delete == Request("DELETE", "/project/{id}/task/{id}", scan.project_id,
                               task_id, c.access_token)
         IN  IF scan.project_id = NoId
             THEN Failed(c, srv, scan.requests, TaskNotFound)
             ELSE IF resps[Len(scan.requests) + 1] = OK
             THEN Returned(c, WithoutTask(srv, task_id), Append(scan.requests, delete),
                           NoId, << >>)
             ELSE Failed(c, srv, Append(scan.requests, delete), InvalidToken)

\* TickTickClient.complete_task
complete_task(c, srv, task_id, resps) ==
    IF c.access_token = None
    THEN Failed(c, srv, << >>, NotAuthenticated)
    ELSE LET scan == ScanForTask(c, srv, task_id, resps)
             post == Request("POST", "/project/{id}/task/{id}/complete", scan.project_id,
                             task_id, c.access_token)
         IN  IF scan.project_id = NoId
             THEN Failed(c, srv, scan.requests, TaskNotFound)
             ELSE IF resps[Len(scan.requests) + 1] = OK
             THEN Returned(c, Completed(srv, task_id),
                           Append(scan.requests, post), NoId, << >>)
             ELSE Failed(c, srv, Append(scan.requests, post), InvalidToken)

(* -------------------------- authorization flow ------------------------ *)

\* no flow under way: no listener, OAuthCallbackHandler.auth_code None
NoFlow == [phase |-> "idle", listener |-> FALSE, auth_code |-> None, timeouts |-> 0]
AuthCodes == {"code1"}

BindFailure == "OSError"
ExchangeFailure == "Exception: Error getting access token"

\* what the world does to one authenticate call that ends: whether the port could be
\* bound, and what the token endpoint answers to the code
Flows ==
    [bound : BOOLEAN, granted : BOOLEAN, access_token : Tokens, expires_in : Lifetimes]

\* get_access_token with the code, then save_token, at time t
ExchangeCode(c, f, t, granted, access_token, expires_in) ==
    IF granted
    THEN LET saved == save_token(c, access_token, expires_in, t)
         IN  [client |-> saved.client, file |-> saved.file, raised |-> None]
    ELSE [client |-> c, file |-> f, raised |-> ExchangeFailure]

\* whether authenticate returns the token it holds without a flow
HoldsToken(c, force_new) == ~force_new /\ c.access_token # None

\* TickTickClient.authenticate as one call that ends: the listener got a request
\* with a code, after any number of timeouts and requests without one
authenticate(c, f, t, force_new, flow) ==
    IF HoldsToken(c, force_new)
    THEN [client |-> c, file |-> f, raised |-> None]
    ELSE IF ~flow.bound
    THEN [client |-> c, file |-> f, raised |-> BindFailure]
    ELSE ExchangeCode(c, f, t, flow.granted, flow.access_token, flow.expires_in)

(* ------------------------ authorization utility ----------------------- *)

max_retries == 3
retry_delay == 5

\* main not run: attempt is the loop variable, tries the iterations entered, slept
\* the seconds spent in time.sleep; authorized tells that authenticate returned in
\* the last iteration, verified that the project list was then really loaded
NotRun ==
    [phase |-> "idle", attempt |-> 0, tries |-> 0, slept |-> 0, diagnostics |-> FALSE,
     authorized |-> FALSE, verified |-> FALSE]

\* one iteration of the for loop of main, up to its return, its sleep or its end.
\* load_projects catches every exception itself, so the inner except clause of main
\* is never entered
MainIteration(m, c, f, srv, t, flow, resp) ==
    LET a == authenticate(c, f, t, FALSE, flow)
        lp == load_projects(a.client, srv, resp)
        tried == [m EXCEPT !.tries = @ + 1]
    IN  IF a.raised = None
        THEN [cli |-> [tried EXCEPT !.phase = "done", !.authorized = TRUE,
                                    !.verified = (resp = OK)],
              client |-> lp.client, file |-> a.file, raised |-> None,
              requests |-> lp.requests]
        ELSE IF m.attempt < max_retries - 1
        THEN [cli |-> [tried EXCEPT !.phase = "sleeping"],
              client |-> a.client, file |-> a.file, raised |-> a.raised,
              requests |-> << >>]
        ELSE [cli |-> [tried EXCEPT !.phase = "done", !.diagnostics = TRUE],
              client |-> a.client, file |-> a.file, raised |-> a.raised,
              requests |-> << >>]

(* ----------------------------- transports ---------------------------- *)

\* ConsoleHandler.__init__: no messages; copy is the list a caller holds
\* ConsoleHandler.__init__: an empty list; calls is the history of the send calls,
\* copy the list the caller holds from its last get_messages, and shared whether
\* that list is the handler's own list object
NewConsole == [messages |-> << >>, calls |-> << >>, copy |-> << >>, shared |-> FALSE]

\* what the in-memory handler is asked to deliver
ConsoleTexts == {<<"a">>, <<"b">>}

\* the f-string of ConsoleHandler.send_error
ErrorEntry(error) == <<"ERROR: ">> \o error

\* a change of the handler's list, seen through the caller's list when they are
\* one object
ListBecomes(c, list) ==
    [c EXCEPT !.messages = list, !.copy = IF c.shared THEN list ELSE @]

\* ConsoleHandler.send_message
send_message(c, message) ==
    [ListBecomes(c, Append(c.messages, message))
        EXCEPT !.calls = Append(@, [kind |-> "message", text |-> message])]

\* ConsoleHandler.send_error
send_error(c, error) ==
    [ListBecomes(c, Append(c.messages, ErrorEntry(error)))
        EXCEPT !.calls = Append(@, [kind |-> "error", text |-> error])]

get_messages_ReturnsList(c) == [c EXCEPT !.copy = c.messages, !.shared = TRUE]

\* ConsoleHandler.get_messages: a new list with the same entries
get_messages(c) == [c EXCEPT !.copy = c.messages, !.shared = FALSE]

\* what the caller may do to the list it got: append, drop the last entry, empty it
ListMutations(list) ==
    {Append(list, <<"x">>), << >>}
        \cup (IF list = << >> THEN {} ELSE {SubSeq(list, 1, Len(list) - 1)})

\* the caller changes the list it holds
mutate(c, list) ==
    [c EXCEPT !.copy = list, !.messages = IF c.shared THEN list ELSE @]

\* a connection of the /ws endpoint after accept: its Session and history_digest,
\* nothing sent
NewSocket == [unit |-> NewUnit, history_digest |-> Str(<< >>), sent |-> << >>]

(* -------------------------- audio preprocessor ---------------------- *)

\* a frame is a text whose chunks are single characters; NoFrame: nothing to send
NoFrame == <<"">>
DataPrefix == <<"d", "a", "t", "a", ":">>
Base64Marker == <<";", "b", "a", "s", "e", "6", "4", ",">>
\* audio/webm and audio/webm;codecs=opus, shortened
Mimes == {<<"a", "/", "w">>, <<"a", "/", "w", ";", "c", "=", "o">>}

\* the base64 alphabet and its padding character
Alphabet ==
    <<"A", "B", "C", "D", "E", "F", "G", "H", "I", "J", "K", "L", "M", "N", "O", "P",
      "Q", "R", "S", "T", "U", "V", "W", "X", "Y", "Z", "a", "b", "c", "d", "e", "f",
      "g", "h", "i", "j", "k", "l", "m", "n", "o", "p", "q", "r", "s", "t", "u", "v",
      "w", "x", "y", "z", "0", "1", "2", "3", "4", "5", "6", "7", "8", "9", "+", "/">>
Pad == "="

\* the byte strings a client records
AudioBytes == {0, 77, 255}
ByteStrings == UNION {[1..n -> AudioBytes] : n \in 0..MaxBytes}

\* base64 of a byte string, as the client encodes it (RFC 4648, padded)
RECURSIVE b64encode(_)
b64encode(b) ==
    IF Len(b) = 0 THEN << >>
    ELSE IF Len(b) = 1
    THEN <<Alphabet[(b[1] \div 4) + 1], Alphabet[(b[1] % 4) * 16 + 1], Pad, Pad>>
    ELSE IF Len(b) = 2
    THEN <<Alphabet[(b[1] \div 4) + 1], Alphabet[(b[1] % 4) * 16 + (b[2] \div 16) + 1],
           Alphabet[(b[2] % 16) * 4 + 1], Pad>>
    ELSE <<Alphabet[(b[1] \div 4) + 1], Alphabet[(b[1] % 4) * 16 + (b[2] \div 16) + 1],
           Alphabet[(b[2] % 16) * 4 + (b[3] \div 64) + 1], Alphabet[(b[3] % 64) + 1]>>
         \o b64encode(SubSeq(b, 4, Len(b)))

\* the payload a client sends for the bytes b
DataUrl(mime, b) == DataPrefix \o mime \o Base64Marker \o b64encode(b)

\* the value of a character in the decoding table, negative for a character
\* outside the alphabet
SextetOf(ch) == FirstIndex({i \in 1..64 : Alphabet[i] = ch}) - 1

\* the decoder before the first character
DecoderStart == [quad_pos |-> 0, leftchar |-> 0, pads |-> 0, out |-> << >>, done |-> FALSE]

a2b_step_Misaligned(st, ch) ==
    IF ch = Pad
    THEN IF st.quad_pos >= 2
         THEN [st EXCEPT !.pads = @ + 1, !.done = (st.quad_pos + st.pads + 1 >= 4)]
         ELSE st
    ELSE IF SextetOf(ch) < 0
    THEN st
    ELSE LET v == SextetOf(ch)
         IN  IF st.quad_pos = 0
             THEN [st EXCEPT !.pads = 0, !.quad_pos = 1, !.leftchar = v]
             ELSE IF st.quad_pos = 1
             THEN [st EXCEPT !.pads = 0, !.quad_pos = 2, !.leftchar = v % 16,
                             !.out = Append(@, st.leftchar * 4 + (v \div 16))]
             ELSE IF st.quad_pos = 2
             THEN [st EXCEPT !.pads = 0, !.quad_pos = 3, !.leftchar = v % 4,
                             !.out = Append(@, st.leftchar * 16 + (v \div 4))]
             ELSE [st EXCEPT !.pads = 0, !.quad_pos = 0, !.leftchar = 0,
                             !.out = Append(@, (st.leftchar * 64 + v) % 128)]

\* one character through binascii.a2b_base64 in its default (not strict) mode: a
\* padding character ends the data once the quad is complete, a character outside
\* the alphabet is skipped, a data character adds six bits
a2b_step(st, ch) ==
    IF ch = Pad
    THEN IF st.quad_pos >= 2
         THEN [st EXCEPT !.pads = @ + 1, !.done = (st.quad_pos + st.pads + 1 >= 4)]
         ELSE st
    ELSE IF SextetOf(ch) < 0
    THEN st
    ELSE LET v == SextetOf(ch)
         IN  IF st.quad_pos = 0
             THEN [st EXCEPT !.pads = 0, !.quad_pos = 1, !.leftchar = v]
             ELSE IF st.quad_pos = 1
             THEN [st EXCEPT !.pads = 0, !.quad_pos = 2, !.leftchar = v % 16,
                             !.out = Append(@, st.leftchar * 4 + (v \div 16))]
             ELSE IF st.quad_pos = 2
             THEN [st EXCEPT !.pads = 0, !.quad_pos = 3, !.leftchar = v % 4,
                             !.out = Append(@, st.leftchar * 16 + (v \div 4))]
             ELSE [st EXCEPT !.pads = 0, !.quad_pos = 0, !.leftchar = 0,
                             !.out = Append(@, st.leftchar * 64 + v)]

RECURSIVE a2b_base64(_, _)
a2b_base64(chars, st) ==
    IF chars = << >> \/ st.done THEN st
    ELSE a2b_base64(Tail(chars), a2b_step(st, Head(chars)))

DecodeError == "binascii.Error"

\* base64.b64decode: the bytes, or binascii.Error when the data characters do not
\* fill their last quad and no padding completed it
b64decode(chars) ==
    LET st == a2b_base64(chars, DecoderStart)
    IN  IF ~st.done /\ st.quad_pos # 0
        THEN [raised |-> DecodeError, bytes |-> << >>]
        ELSE [raised |-> None, bytes |-> st.out]

\* str.split(sep)
RECURSIVE Split(_, _)
Split(text, sep) ==
    LET i == FirstIndex({j \in 1..Len(text) : text[j] = sep})
    IN  IF i = 0 THEN <<text>>
        ELSE <<SubSeq(text, 1, i - 1)>> \o Split(SubSeq(text, i + 1, Len(text)), sep)

\* str.startswith
StartsWith(text, prefix) ==
    Len(text) >= Len(prefix) /\ SubSeq(text, 1, Len(prefix)) = prefix

IndexError == "IndexError"
WriteError == "OSError"

\* what happens to the temporary file when it is opened and written: it is written,
\* open fails and no file is made, or the write fails and the file is left empty
DiskOutcomes == {"written", "open fails", "write fails"}

\* temp_<timestamp>.webm: the timestamp has the resolution of the clock
TempAudio(stamp, bytes) == [name |-> stamp, bytes |-> bytes]

\* how a process_audio call ends: decoded tells that the payload was decoded,
\* stored that the temporary file was created, transcribed that the transcription
\* collaborator was invoked, handed the bytes it read from the file
AudioEnds(dir, raised, text, decoded, audio_bytes, stored, transcribed, handed) ==
    [dir |-> dir, raised |-> raised, text |-> text, decoded |-> decoded,
     audio_bytes |-> audio_bytes, stored |-> stored, transcribed |-> transcribed,
     handed |-> handed]

\* AudioProcessor.process_audio at time stamp: the header and the payload are split
\* off textually, the payload is decoded, the bytes are written to the temporary
\* file, the file is handed to the transcription and removed in the finally clause
process_audio(dir, audio_data, stamp, disk, hearing) ==
    LET parts == Split(audio_data, ",")
        head == Split(parts[1], ":")
        decoded == b64decode(parts[2])
        others == {f \in dir : f.name # stamp}
    IN  IF Len(head) < 2 \/ Len(parts) < 2
        THEN AudioEnds(dir, IndexError, << >>, FALSE, << >>, FALSE, FALSE, << >>)
        ELSE IF decoded.raised # None
        THEN AudioEnds(dir, decoded.raised, << >>, FALSE, << >>, FALSE, FALSE, << >>)
        ELSE IF disk = "open fails"
        THEN AudioEnds(dir, WriteError, << >>, TRUE, decoded.bytes, FALSE, FALSE, << >>)
        ELSE IF disk = "write fails"
        THEN AudioEnds(others \cup {TempAudio(stamp, << >>)}, WriteError, << >>, TRUE,
                       decoded.bytes, TRUE, FALSE, << >>)
        ELSE AudioEnds(others, hearing.raised, hearing.text, TRUE,
                       decoded.bytes, TRUE, TRUE, decoded.bytes)

\* payloads that are not the encoding of a byte string: no comma, one data
\* character, two data characters without padding, characters outside the alphabet
MalformedPayloads ==
    {DataPrefix,
     DataPrefix \o <<"a", "/", "w">> \o Base64Marker \o <<"A">>,
     DataPrefix \o <<"a", "/", "w">> \o Base64Marker \o <<"T", "Q">>,
     DataPrefix \o <<"a", "/", "w">> \o Base64Marker \o <<"!", "!">>,
     DataPrefix \o <<"a", "/", "w">> \o <<",", "T", "Q", "=", "=">>}

AudioPayloads == {DataUrl(mime, b) : mime \in Mimes, b \in ByteStrings} \cup MalformedPayloads

\* the frames of a connection: texts, one of them the prefix without its colon and
\* one with a colon and a comma in it,
\* the encodings of a one-byte and of an empty recording, and the malformed payloads
WireFrames ==
    {<<"h", "i">>, << >>, <<"d", "a", "t", "a">>, <<"n", ":", ",", "T", "Q", "=", "=">>,
     DataUrl(<<"a", "/", "w">>, <<77>>), DataUrl(<<"a", "/", "w">>, << >>)}
        \cup MalformedPayloads

(* ------------------------- the /ws endpoint --------------------------- *)

\* the frames the endpoint sends
ErrorFrame(e) == <<"Error: ", "Error processing request: ", e>>
StatusFrame(status, message) == <<"[", status, "] ">> \o message

\* how one iteration of the endpoint's loop ends; caught is the exception its
\* except clause caught, a how the decoding and process_audio ended
IterationEnds(sock, lm, a, caught) == [socket |-> sock, lm |-> lm, a |-> a, caught |-> caught]

\* the except clause: the error frame is sent
ExceptSends(sock, lm, a, e) ==
    IterationEnds([sock EXCEPT !.sent = Append(@, ErrorFrame(e))], lm, a, e)

\* the iteration from run_until_stop on: a finished Session is digested, the digest
\* is sent and a new Session replaces it; the last message, if any, is sent
EndpointAdvance(sock, lm, a, u, evs, term, summary, fails) ==
    LET run == RunUntilStop(u, lm, evs, term)
        ran == [sock EXCEPT !.unit = run.unit]
        last == IF TruthyMessage(run.lm[run.result])
                THEN <<StatusFrame(run.result, <<run.lm[run.result]>>)>> ELSE << >>
    IN  IF run.raised # None
        THEN ExceptSends(ran, run.lm, a, run.raised)
        ELSE IF run.result = FINISHED
        THEN LET d == SessionDigest(run.unit, summary, fails)
             IN  IF d.raised # None
                 THEN ExceptSends(ran, run.lm, a, d.raised)
                 ELSE IterationEnds(
                          [sock EXCEPT !.unit = NewUnit, !.history_digest = d.value,
                                       !.sent = Append(@, StatusFrame(FINISHED, Format(d.value)))
                                                   \o last],
                          run.lm, a, None)
        ELSE IterationEnds([ran EXCEPT !.sent = @ \o last], run.lm, a, None)

\* one iteration of the loop of websocket_endpoint in server.py: every frame is
\* split and decoded as an audio payload, then transcribed; start is called with
\* the task text alone
EndpointIteration(sock, lm, a, evs, term, summary, fails) ==
    IF a.raised # None
    THEN ExceptSends(sock, lm, a, a.raised)
    ELSE IF a.text = << >>
    THEN IterationEnds(sock, lm, a, None)
    ELSE IF ~sock.unit.session.is_active
    THEN LET st == SessionStart(sock.unit, task_prompt(a.text, sock.history_digest), Missing)
         IN  IF st.raised # None
             THEN ExceptSends([sock EXCEPT !.unit = st.unit], lm, a, st.raised)
             ELSE EndpointAdvance(sock, lm, a, st.unit, evs, term, summary, fails)
    ELSE EndpointAdvance(sock, lm, a, recv_user_input(sock.unit, a.text), evs, term,
                         summary, fails)

\* the test `data.startswith('data:')` of handle_message and what it hands on
IsAudio(frame) == StartsWith(frame, DataPrefix)
Route(frame) == IF IsAudio(frame) THEN AudioFrame ELSE TextFrame(frame)

\* a frame that process_audio is not called with
NotProcessed(dir) == AudioEnds(dir, None, << >>, FALSE, << >>, FALSE, FALSE, << >>)
NotHeard == [raised |-> None, text |-> << >>]

\* process_audio as handle_message sees it
HeardAs(a) == [raised |-> a.raised, text |-> a.text]

(* ------------------------------ calls --------------------------------- *)

NoCall ==
    [op |-> "none", sid |-> None, status |-> None, last_message |-> None, raised |-> None,
     emitted |-> << >>, value |-> NoValue, summarized |-> FALSE, prompt |-> << >>,
     text |-> << >>, handler |-> None, calls |-> << >>, digest |-> NoValue, first |-> FALSE,
     passes |-> 0, summary |-> << >>, caught |-> None, requests |-> << >>, at |-> 0,
     expires_at |-> 0, arg |-> "", task |-> NoId, ids |-> << >>, loaded |-> FALSE,
     payload |-> NoPayload, decoded |-> FALSE, audio_bytes |-> << >>, stored |-> FALSE,
     transcribed |-> FALSE, handed |-> << >>, heard |-> FALSE, held |-> << >>,
     shared |-> FALSE, rejected |-> FALSE]

\* the state of a Session in the words of the state machine
StateOf(u) ==
    IF ~u.session.is_active THEN "Idle"
    ELSE IF u.pipe.phase = "awaiting" THEN "AwaitingInput"
    ELSE IF u.pipe.phase = "ended" THEN "Finished"
    ELSE "Running"

Start(s, text, message_handler) ==
    LET r == SessionStart(units[s], text, message_handler)
    IN  /\ units' = [units EXCEPT ![s] = r.unit]
        /\ ret' = [NoCall EXCEPT !.op = "start", !.sid = s, !.raised = r.raised,
                                 !.text = text, !.handler = message_handler]
        /\ UNCHANGED <<lastMsg, team, direct, handlers, wireVars, facadeVars>>

Advance(s) ==
    \E evs \in Batches, term \in Terminators :
        /\ CanEmit(units[s], evs, term)
        /\ LET r == RunUntilStop(units[s], lastMsg, evs, term)
           IN  /\ units' = [units EXCEPT ![s] = r.unit]
               /\ lastMsg' = r.lm
               /\ ret' = [NoCall EXCEPT !.op = "run_until_stop", !.sid = s,
                              !.status = r.result,
                              !.last_message = IF r.result = None THEN None
                                               ELSE r.lm[r.result],
                              !.raised = r.raised,
                              !.emitted = Emission(evs, term)]
        /\ UNCHANGED <<team, direct, handlers, wireVars, facadeVars>>

Digest(s) ==
    \E summary \in Summaries, fails \in BOOLEAN :
        LET r == SessionDigest(units[s], summary, fails)
        IN  /\ ret' = [NoCall EXCEPT !.op = "digest", !.sid = s, !.value = r.value,
                           !.summarized = r.summarized, !.raised = r.raised]
            /\ UNCHANGED <<units, lastMsg, team, direct, handlers, wireVars, facadeVars>>

get_history_ReturnsList(u) == [list |-> u.session.text_history, shared |-> TRUE]

\* Session.get_history: a new list with the entries of the transcript; shared tells
\* whether the list handed out is the transcript's own list object
get_history(u) == [list |-> u.session.text_history, shared |-> FALSE]

GetHistory(s) ==
    /\ LET h == get_history(units[s])
       IN  ret' = [NoCall EXCEPT !.op = "get_history", !.sid = s, !.held = h.list,
                                !.shared = h.shared]
    /\ UNCHANGED <<units, lastMsg, team, direct, handlers, wireVars, facadeVars>>

\* what the caller may do to the list it got: append an entry, drop the last, empty it
HistoryMutations(list) ==
    {Append(list, <<"x", "caller">>), << >>}
        \cup (IF list = << >> THEN {} ELSE {SubSeq(list, 1, Len(list) - 1)})

\* the caller of get_history changes the list it holds
CallerMutatesHistory(s) ==
    \E list \in HistoryMutations(ret.held) :
        /\ ret.op \in {"get_history", "history.caller"} /\ ret.sid = s
        /\ Len(list) <= MaxHistory
        /\ ret' = [NoCall EXCEPT !.op = "history.caller", !.sid = s, !.held = list,
                                 !.shared = ret.shared]
        /\ units' = IF ret.shared
                    THEN [units EXCEPT ![s].session.text_history = list]
                    ELSE units
        /\ UNCHANGED <<lastMsg, team, direct, handlers, wireVars, facadeVars>>

RecvUserInput(s, text) ==
    /\ Len(units[s].queue) < MaxQueue
    /\ units' = [units EXCEPT ![s] = recv_user_input(@, text)]
    /\ ret' = [NoCall EXCEPT !.op = "recv_user_input", !.sid = s, !.text = text]
    /\ UNCHANGED <<lastMsg, team, direct, handlers, wireVars, facadeVars>>

TeamInitialize ==
    /\ team.inits < MaxInits
    /\ team' = initialize(team)
    /\ ret' = [NoCall EXCEPT !.op = "team.initialize"]
    /\ UNCHANGED <<units, lastMsg, direct, handlers, wireVars, facadeVars>>

\* Session.start called on the Session the Team strategy holds, with the handler the
\* method requires
TeamSessionStart(text, message_handler) ==
    /\ team.has_session
    /\ LET r == SessionStart(team.unit, text, message_handler)
       IN  /\ team' = [team EXCEPT !.unit = r.unit]
           /\ ret' = [NoCall EXCEPT !.op = "team.session.start", !.raised = r.raised,
                                    !.text = text, !.handler = message_handler]
    /\ UNCHANGED <<units, lastMsg, direct, handlers, wireVars, facadeVars>>

ConsoleSendMessage(message) ==
    /\ Len(console.calls) < MaxEntries
    /\ console' = send_message(console, message)
    /\ ret' = [NoCall EXCEPT !.op = "console.send_message", !.text = message]
    /\ UNCHANGED <<units, lastMsg, team, direct, handlers, audio_dir, socket, inbound,
                   facadeVars>>

ConsoleSendError(error) ==
    /\ Len(console.calls) < MaxEntries
    /\ console' = send_error(console, error)
    /\ ret' = [NoCall EXCEPT !.op = "console.send_error", !.text = error]
    /\ UNCHANGED <<units, lastMsg, team, direct, handlers, audio_dir, socket, inbound,
                   facadeVars>>

ConsoleGetMessages ==
    /\ console' = get_messages(console)
    /\ ret' = [NoCall EXCEPT !.op = "console.get_messages"]
    /\ UNCHANGED <<units, lastMsg, team, direct, handlers, audio_dir, socket, inbound,
                   facadeVars>>

\* the caller of get_messages changes the list it was given
CallerMutatesList ==
    \E list \in ListMutations(console.copy) :
        /\ Len(list) <= MaxEntries
        /\ console' = mutate(console, list)
        /\ ret' = [NoCall EXCEPT !.op = "console.caller"]
        /\ UNCHANGED <<units, lastMsg, team, direct, handlers, audio_dir, socket, inbound,
                       facadeVars>>

\* DirectAgentStrategy.initialize
DirectInitialize ==
    /\ direct' = init_agent(direct)
    /\ ret' = [NoCall EXCEPT !.op = "direct.initialize"]
    /\ UNCHANGED <<units, lastMsg, team, handlers, wireVars, facadeVars>>

TeamProcessMessage(text) ==
    \E evs \in Batches, term \in Terminators, summary \in Summaries, fails \in BOOLEAN :
        /\ TeamProcess(team, lastMsg, text, evs, term, summary, fails).team.inits <= MaxInits
        /\ TeamReachesAdvance(team) => Len(team.unit.queue) < MaxPending
        /\ IF TeamReachesAdvance(team)
           THEN CanEmit(recv_user_input(team.unit, text), evs, term)
           ELSE evs = << >> /\ term = "end" /\ ~fails
        /\ LET r == TeamProcess(team, lastMsg, text, evs, term, summary, fails)
           IN  /\ team' = r.team
               /\ lastMsg' = r.lm
               /\ ret' = [NoCall EXCEPT !.op = "team.process_message", !.text = text,
                              !.status = r.status, !.value = r.value,
                              !.raised = r.raised, !.calls = r.calls,
                              !.digest = team.history_digest,
                              !.first = ~TeamReachesAdvance(team),
                              !.prompt = task_prompt(text, team.history_digest)]
        /\ UNCHANGED <<units, direct, handlers, wireVars, facadeVars>>

DirectProcessMessage(text) ==
    \E response \in Responses, answers \in BOOLEAN, summary \in Summaries,
       fails \in BOOLEAN :
        /\ Len(direct.history) + 2 <= 2 * MaxExchanges
        /\ LET r == DirectProcess(direct, text, response, answers, summary, fails)
           IN  /\ direct' = r.direct
               /\ ret' = [NoCall EXCEPT !.op = "direct.process_message", !.text = text,
                              !.status = r.status, !.value = r.value,
                              !.raised = r.raised, !.prompt = r.prompt,
                              !.digest = direct.history_digest,
                              !.first = RoundStarts(direct.history),
                              !.passes = r.passes, !.summary = summary]
        /\ UNCHANGED <<units, lastMsg, team, handlers, wireVars, facadeVars>>

\* handle_message of the handler of one mode; ret.sid names the mode
ModeName(use_direct_agent) == IF use_direct_agent THEN "direct" ELSE "team"

HandleMessageReturns(m, data, r) ==
    /\ r.handler.inits <= MaxInits
    /\ Len(r.handler.history) <= 2 * MaxExchanges
    /\ handlers' = [handlers EXCEPT ![m] = r.handler]
    /\ lastMsg' = r.lm
    /\ ret' = [NoCall EXCEPT !.op = "handle_message", !.sid = ModeName(m),
                             !.text = data.text, !.status = r.status, !.value = r.value,
                             !.raised = r.raised, !.caught = r.caught]
    /\ UNCHANGED <<units, team, direct, wireVars, facadeVars>>

HandleMessage(m, data) ==
    \E heard \in IF data.kind = "audio" THEN Hearings
                  ELSE {[raised |-> None, text |-> << >>]},
       response \in IF m THEN Responses ELSE {<<"done.">>},
       answers \in IF m THEN BOOLEAN ELSE {TRUE},
       evs \in IF ~m /\ TeamReachesAdvance(handlers[m]) THEN Batches ELSE {<< >>},
       term \in IF ~m /\ TeamReachesAdvance(handlers[m]) THEN Terminators ELSE {"end"},
       summary \in Summaries, fails \in BOOLEAN :
        /\ (~m /\ TeamReachesAdvance(handlers[m]))
              => CanEmit(recv_user_input(handlers[m].unit, data.text), evs, term)
        /\ HandleMessageReturns(m, data,
                                handle_message(handlers[m], lastMsg, data, heard, response,
                                               answers, evs, term, summary, fails))

\* handle_message called with a frame as it came over the connection: the frame is
\* routed by its prefix, a is how process_audio ended
HandleFrameReturns(m, frame, a, r) ==
    /\ r.handler.inits <= MaxInits
    /\ Len(r.handler.history) <= 2 * MaxFrames
    /\ handlers' = [handlers EXCEPT ![m] = r.handler]
    /\ lastMsg' = r.lm
    /\ audio_dir' = a.dir
    /\ ret' = [NoCall EXCEPT !.op = "handle_frame", !.sid = ModeName(m), !.at = now,
                             !.text = frame, !.status = r.status, !.value = r.value,
                             !.raised = r.raised, !.caught = r.caught,
                             !.decoded = a.decoded, !.audio_bytes = a.audio_bytes,
                             !.stored = a.stored, !.transcribed = a.transcribed,
                             !.handed = a.handed, !.heard = IsAudio(frame)]
    /\ UNCHANGED <<units, team, direct, socket, console, inbound, facadeVars>>

HandleFrameHeard(m, frame, a, response, answers, evs, term, summary, fails) ==
    HandleFrameReturns(m, frame, a,
                       handle_message(handlers[m], lastMsg, Route(frame), HeardAs(a),
                                      response, answers, evs, term, summary, fails))

HandleFrame(m, frame) ==
    \E disk \in IF IsAudio(frame) THEN DiskOutcomes ELSE {"written"},
       response \in IF m THEN Responses ELSE {<<"done.">>},
       answers \in IF m THEN BOOLEAN ELSE {TRUE},
       evs \in IF ~m /\ TeamReachesAdvance(handlers[m]) THEN Batches ELSE {<< >>},
       term \in IF ~m /\ TeamReachesAdvance(handlers[m]) THEN Terminators ELSE {"end"},
       summary \in Summaries :
      \E hearing \in IF IsAudio(frame) /\ disk = "written" THEN Hearings ELSE {NotHeard},
         fails \in IF (m /\ answers /\ EndsConversation(response))
                      \/ (~m /\ TeamReachesAdvance(handlers[m]))
                   THEN BOOLEAN ELSE {FALSE} :
        /\ (~m /\ TeamReachesAdvance(handlers[m]))
              => CanEmit(recv_user_input(handlers[m].unit, frame), evs, term)
        /\ HandleFrameHeard(m, frame,
                            IF IsAudio(frame)
                            THEN process_audio(audio_dir, frame, now, disk, hearing)
                            ELSE NotProcessed(audio_dir),
                            response, answers, evs, term, summary, fails)

\* whether the endpoint's iteration gets as far as the advance
EndpointReachesAdvance == socket.unit.session.is_active

\* one frame received by the /ws endpoint of server.py; heard: the frame went
\* through the audio decoding
WsReceiveEnds(frame, r) ==
    /\ Len(r.socket.sent) <= MaxSent
    /\ socket' = r.socket
    /\ lastMsg' = r.lm
    /\ audio_dir' = r.a.dir
    /\ ret' = [NoCall EXCEPT !.op = "ws_frame", !.at = now, !.text = frame,
                             !.caught = r.caught,
                             !.emitted = SubSeq(r.socket.sent, Len(socket.sent) + 1,
                                                Len(r.socket.sent)),
                             !.decoded = r.a.decoded, !.audio_bytes = r.a.audio_bytes,
                             !.stored = r.a.stored, !.transcribed = r.a.transcribed,
                             !.handed = r.a.handed, !.heard = TRUE]
    /\ UNCHANGED <<units, team, direct, handlers, console, inbound, facadeVars>>

WsReceive(frame) ==
    \E disk \in DiskOutcomes,
       evs \in IF EndpointReachesAdvance THEN Batches ELSE {<< >>},
       term \in IF EndpointReachesAdvance THEN Terminators ELSE {"end"},
       summary \in Summaries :
      \E hearing \in IF disk = "written" THEN Hearings ELSE {NotHeard},
         fails \in IF EndpointReachesAdvance THEN BOOLEAN ELSE {FALSE} :
        /\ EndpointReachesAdvance => CanEmit(recv_user_input(socket.unit, frame), evs, term)
        /\ WsReceiveEnds(frame,
                         EndpointIteration(socket, lastMsg,
                                           process_audio(audio_dir, frame, now, disk, hearing),
                                           evs, term, summary, fails))

\* AgentManager.task_prompt applied to a request and a stored digest
DigestValues == {Str(<< >>), ListOf(Placeholder)} \cup {Str(d) : d \in Summaries}

ApplyTaskPrompt(user_request, history_digest) ==
    /\ ret' = [NoCall EXCEPT !.op = "task_prompt", !.text = user_request,
                             !.digest = history_digest, !.first = TRUE,
                             !.prompt = task_prompt(user_request, history_digest)]
    /\ UNCHANGED <<units, lastMsg, team, direct, handlers, wireVars, facadeVars>>

\* the project the server files a task under when the request names 'inbox': the
\* listed INBOX project if there is one, else an inbox the project list does not show
HiddenInbox == MaxProjects + 1
InboxAlias == MaxProjects + 2
ServerInbox(srv) ==
    IF FirstInbox(srv.projects) # NoId THEN FirstInbox(srv.projects) ELSE HiddenInbox

AccessTokenNotSet == "Exception: Access token not set. Please authenticate first."
TempTitle == "_temp_task_for_inbox_id"

\* TickTickClient._get_inbox_id: a temporary task is created under 'inbox', the
\* project id of the answer is the result, and the task is deleted (a failure of
\* the delete is only printed)
get_inbox_id(c, srv, resps) ==
    LET post == Request("POST", "/task", InboxAlias, NoId, c.access_token)
        temp == Task(srv.born + 1, ServerInbox(srv), TempTitle)
        made == [srv EXCEPT !.tasks = Append(@, temp), !.born = @ + 1]
        delete == Request("DELETE", "/project/{id}/task/{id}", temp.projectId, temp.id,
                          c.access_token)
    IN  IF resps[1] # OK
        THEN Failed(c, srv, <<post>>, HTTPError)
        ELSE Returned(c, IF resps[2] = OK THEN WithoutTask(made, temp.id) ELSE made,
                      <<post, delete>>, temp.projectId, << >>)

\* TickTickClient.get_inbox_tasks
get_inbox_tasks(c, srv, resps) ==
    IF c.access_token = None
    THEN Failed(c, srv, << >>, AccessTokenNotSet)
    ELSE LET falls == c.inbox_id = NoId
             fb == get_inbox_id(c, srv, resps)
             c2 == IF falls THEN [c EXCEPT !.inbox_id = fb.id] ELSE c
             srv2 == IF falls THEN fb.server ELSE srv
             sent == IF falls THEN fb.requests ELSE << >>
             data == Request("GET", "/project/{id}/data", c2.inbox_id, NoId, c.access_token)
         IN  IF falls /\ fb.raised # None
             THEN Failed(c, srv, sent, fb.raised)
             ELSE IF resps[Len(sent) + 1] = OK
             THEN Returned(c2, srv2, Append(sent, data), NoId, TasksOf(srv2, c2.inbox_id))
             ELSE Failed(c2, srv2, Append(sent, data), InvalidToken)

\* a call of the facade at the present time; expires_at is what the token file says
FacadeCall(op) ==
    [NoCall EXCEPT !.op = op, !.at = now, !.expires_at = tokenFile.expires_at]

\* the facade is constructed and not inside authenticate
FacadeIdle == client.constructed /\ auth.phase = "idle"

\* AudioProcessor.process_audio called with the client's payload
ProcessAudio(disk, hearing) ==
    LET r == process_audio(audio_dir, inbound, now, disk, hearing)
    IN  /\ inbound # NoFrame
        /\ audio_dir' = r.dir
        /\ ret' = [NoCall EXCEPT !.op = "process_audio", !.at = now, !.text = inbound,
                                 !.raised = r.raised, !.value = Str(r.text),
                                 !.decoded = r.decoded, !.audio_bytes = r.audio_bytes,
                                 !.stored = r.stored, !.transcribed = r.transcribed,
                                 !.handed = r.handed]
        /\ UNCHANGED <<units, lastMsg, team, direct, handlers, socket, console, inbound,
                       facadeVars>>

\* the clock
Tick ==
    /\ now < MaxTime
    /\ now' = now + 1
    /\ ret' = [NoCall EXCEPT !.op = "tick"]
    /\ UNCHANGED <<units, lastMsg, team, direct, handlers, wireVars, tokenFile, client, server,
                   auth, cli>>

\* TickTickClient.__init__: load_token, then load_projects if a token was loaded
Construct ==
    \E resp \in StatusCodes :
        /\ auth.phase = "idle"
        /\ LET lt == load_token(NewClient, tokenFile, now)
               lp == load_projects(lt.client, server, resp)
           IN  /\ client' = lp.client
               /\ tokenFile' = lt.file
               /\ ret' = [FacadeCall("construct") EXCEPT
                              !.requests = lp.requests,
                              !.loaded = (lt.client.access_token # None /\ resp = OK)]
        /\ UNCHANGED <<units, lastMsg, team, direct, handlers, wireVars, now, server, auth, cli>>

\* the token file is damaged outside the program (cut short, edited by hand)
TokenFileDamaged ==
    /\ tokenFile.kind = "token"
    /\ tokenFile' = UnparseableFile
    /\ ret' = [NoCall EXCEPT !.op = "file"]
    /\ UNCHANGED <<units, lastMsg, team, direct, handlers, wireVars, now, client, server,
                   auth, cli>>

\* authenticate up to its wait for the callback
Authenticate(force_new) ==
    \E bound \in BOOLEAN :
        /\ FacadeIdle
        /\ IF HoldsToken(client, force_new)
           THEN /\ ret' = [FacadeCall("authenticate") EXCEPT !.status = "returned"]
                /\ UNCHANGED auth
           ELSE IF ~bound
           THEN /\ ret' = [FacadeCall("authenticate") EXCEPT !.raised = BindFailure]
                /\ auth' = NoFlow
           ELSE /\ ret' = [FacadeCall("authenticate") EXCEPT !.status = "waiting"]
                /\ auth' = [NoFlow EXCEPT !.phase = "waiting", !.listener = TRUE]
        /\ UNCHANGED <<units, lastMsg, team, direct, handlers, wireVars, now, tokenFile, client,
                       server, cli>>

\* server.handle_request returns after server.timeout with no request
HandleTimeout ==
    /\ auth.phase = "waiting"
    /\ auth.timeouts < MaxTimeouts
    /\ auth' = [auth EXCEPT !.timeouts = @ + 1]
    /\ ret' = [FacadeCall("handle_request") EXCEPT !.arg = "timeout"]
    /\ UNCHANGED <<units, lastMsg, team, direct, handlers, wireVars, now, tokenFile, client,
                   server, cli>>

\* a request whose query has no code: do_GET answers 400 and the wait goes on
HandleRequestWithoutCode ==
    /\ auth.phase = "waiting"
    /\ ret' = [FacadeCall("handle_request") EXCEPT !.arg = "no code"]
    /\ UNCHANGED <<units, lastMsg, team, direct, handlers, wireVars, facadeVars>>

\* a request with a code: the wait ends, the listener is closed, the code is exchanged
HandleCallback ==
    \E code \in AuthCodes, flow \in Flows :
        /\ auth.phase = "waiting"
        /\ flow.bound
        /\ LET x == ExchangeCode(client, tokenFile, now, flow.granted, flow.access_token,
                                 flow.expires_in)
           IN  /\ client' = x.client
               /\ tokenFile' = x.file
               /\ ret' = [FacadeCall("authenticate") EXCEPT
                              !.raised = x.raised, !.arg = code,
                              !.status = IF x.raised = None THEN "returned" ELSE None]
        /\ auth' = [auth EXCEPT !.phase = "idle", !.listener = FALSE, !.auth_code = code]
        /\ UNCHANGED <<units, lastMsg, team, direct, handlers, wireVars, now, server, cli>>

\* an authenticate call that ended
AuthenticateReturns(force_new) ==
    \E flow \in Flows :
        /\ FacadeIdle
        /\ LET a == authenticate(client, tokenFile, now, force_new, flow)
           IN  /\ client' = a.client
               /\ tokenFile' = a.file
               /\ ret' = [FacadeCall("authenticate") EXCEPT
                              !.raised = a.raised,
                              !.status = IF a.raised = None THEN "returned" ELSE None]
        /\ UNCHANGED <<units, lastMsg, team, direct, handlers, wireVars, now, server, auth, cli>>

\* a facade operation: call says what was called, r is what it left behind
FacadeReturnFrom(call, r) ==
    /\ Len(r.server.projects) <= MaxProjects
    /\ r.server.born <= MaxTasks
    /\ client' = r.client
    /\ server' = r.server
    /\ ret' = [call EXCEPT !.raised = r.raised, !.requests = r.requests,
                           !.task = r.id, !.ids = r.ids]
    /\ UNCHANGED <<units, lastMsg, team, direct, handlers, wireVars, now, tokenFile, auth, cli>>

FacadeReturn(op, r) == FacadeReturnFrom(FacadeCall(op), r)

\* whether one of the requests the call sent was answered 401
Rejected(r, resps) == \E i \in 1..Len(r.requests) : resps[i] = Unauthorized

\* a call that looks the task up in the cached projects first
FacadeScanReturn(op, r, resps) ==
    FacadeReturnFrom([FacadeCall(op) EXCEPT !.rejected = Rejected(r, resps)], r)

\* loaded: the project list request of the call was answered with the list
CreateTask(title, project_name) ==
    \E resps \in Answers :
        /\ FacadeIdle
        /\ FacadeReturnFrom([FacadeCall("create_task") EXCEPT
                                 !.arg = project_name,
                                 !.loaded = (client.access_token # None /\ resps[1] = OK)],
                            create_task(client, server, title, project_name, resps))

GetTasks(project_name) ==
    \E resps \in Answers :
        /\ FacadeIdle
        /\ FacadeReturnFrom([FacadeCall("get_tasks") EXCEPT
                                 !.arg = project_name,
                                 !.loaded = (client.access_token # None /\ resps[1] = OK)],
                            get_tasks(client, server, project_name, resps))

UpdateTask(task_id, title) ==
    \E resps \in Answers :
        /\ FacadeIdle
        /\ FacadeReturnFrom([FacadeCall("update_task") EXCEPT
                                 !.arg = title,
                                 !.rejected =
                                     Rejected(update_task(client, server, task_id, title,
                                                          resps), resps),
                                 !.payload = SubmittedUpdate(client, server, task_id,
                                                             [title |-> title], resps)],
                            update_task(client, server, task_id, title, resps))

LoadProjects ==
    \E resp \in StatusCodes :
        /\ FacadeIdle
        /\ FacadeReturnFrom([FacadeCall("load_projects") EXCEPT
                                 !.loaded = (client.access_token # None /\ resp = OK)],
                            load_projects(client, server, resp))

\* a project is deleted at the server, by another client of the account
ServerRemovesProject ==
    /\ server.projects # << >>
    /\ server' = [server EXCEPT !.projects = SubSeq(@, 1, Len(@) - 1)]
    /\ ret' = [NoCall EXCEPT !.op = "server"]
    /\ UNCHANGED <<units, lastMsg, team, direct, handlers, wireVars, now, tokenFile, client,
                   auth, cli>>

GetInboxTasks ==
    \E resps \in Answers :
        /\ FacadeIdle
        /\ FacadeReturn("get_inbox_tasks", get_inbox_tasks(client, server, resps))

DeleteTask(task_id) ==
    \E resps \in Answers :
        /\ FacadeIdle
        /\ FacadeScanReturn("delete_task",
                            delete_task(client, server, task_id, resps), resps)

CompleteTask(task_id) ==
    \E resps \in Answers :
        /\ FacadeIdle
        /\ FacadeScanReturn("complete_task",
                            complete_task(client, server, task_id, resps), resps)

CreateProject(name) ==
    \E resp \in StatusCodes :
        /\ FacadeIdle
        /\ FacadeReturn("create_project", create_project(client, server, name, resp))

\* the account changes at the server through another client of the task tracker
ServerAddsProject(name, kind) ==
    /\ Len(server.projects) < MaxProjects
    /\ kind = "INBOX" => FirstInbox(server.projects) = NoId
    /\ server' = [server EXCEPT !.projects =
                      Append(@, Project(Len(@) + 1, name, kind))]
    /\ ret' = [NoCall EXCEPT !.op = "server"]
    /\ UNCHANGED <<units, lastMsg, team, direct, handlers, wireVars, now, tokenFile, client,
                   auth, cli>>

ServerAddsTask(i, title) ==
    /\ server.born < MaxTasks
    /\ i \in 1..Len(server.projects)
    /\ server' = [server EXCEPT
                      !.tasks = Append(@, Task(server.born + 1, server.projects[i].id, title)),
                      !.born = @ + 1]
    /\ ret' = [NoCall EXCEPT !.op = "server"]
    /\ UNCHANGED <<units, lastMsg, team, direct, handlers, wireVars, now, tokenFile, client,
                   auth, cli>>

\* a task with some of its optional fields set
ServerAddsTaskWith(i, title, details) ==
    /\ server.born < MaxTasks
    /\ i \in 1..Len(server.projects)
    /\ server' = [server EXCEPT
                      !.tasks = Append(@, DictUpdate(Task(server.born + 1,
                                                          server.projects[i].id, title),
                                                     details)),
                      !.born = @ + 1]
    /\ ret' = [NoCall EXCEPT !.op = "server"]
    /\ UNCHANGED <<units, lastMsg, team, direct, handlers, wireVars, now, tokenFile, client,
                   auth, cli>>

\* main: the facade is constructed, then the loop is entered
Main ==
    \E resp \in StatusCodes :
        /\ cli.phase \in {"idle", "done"}
        /\ auth.phase = "idle"
        /\ LET lt == load_token(NewClient, tokenFile, now)
               lp == load_projects(lt.client, server, resp)
           IN  /\ client' = lp.client
               /\ tokenFile' = lt.file
               /\ ret' = [FacadeCall("main") EXCEPT !.requests = lp.requests]
        /\ cli' = [NotRun EXCEPT !.phase = "running"]
        /\ UNCHANGED <<units, lastMsg, team, direct, handlers, wireVars, now, server, auth>>

\* one iteration of the loop of main
MainAttempt ==
    \E flow \in Flows, resp \in StatusCodes :
        /\ cli.phase = "running"
        /\ LET r == MainIteration(cli, client, tokenFile, server, now, flow, resp)
           IN  /\ cli' = r.cli
               /\ client' = r.client
               /\ tokenFile' = r.file
               /\ ret' = [FacadeCall("main.attempt") EXCEPT
                              !.raised = r.raised, !.requests = r.requests]
        /\ UNCHANGED <<units, lastMsg, team, direct, handlers, wireVars, now, server, auth>>

\* time.sleep(retry_delay) returns and the loop goes to its next iteration
MainSleepEnds ==
    /\ cli.phase = "sleeping"
    /\ cli' = [cli EXCEPT !.phase = "running", !.attempt = @ + 1, !.slept = @ + retry_delay]
    /\ ret' = [NoCall EXCEPT !.op = "main.sleep"]
    /\ UNCHANGED <<units, lastMsg, team, direct, handlers, wireVars, now, tokenFile, client,
                   server, auth>>

InitExcept ==
    /\ units = [s \in SessionIds |-> NewUnit]
    /\ lastMsg = [m \in SessionResult |-> None]
    /\ ret = NoCall
    /\ team = NewTeamStrategy
    /\ direct = NewDirectStrategy
    /\ handlers = [m \in BOOLEAN |-> NewSessionHandler(m)]
    /\ now = 0
    /\ tokenFile = AbsentFile
    /\ client = NoClient
    /\ server = NewServer
    /\ auth = NoFlow
    /\ cli = NotRun
    /\ audio_dir = {}
    /\ socket = NewSocket
    /\ console = NewConsole

Init == InitExcept /\ inbound = NoFrame

EngineNext(S) ==
    \/ \E s \in S, text \in TaskTexts, h \in Handlers \cup {Missing} : Start(s, text, h)
    \/ \E s \in S : Advance(s)
    \/ \E s \in S : Digest(s)
    \/ \E s \in S, text \in UserTexts : RecvUserInput(s, text)

\* one Session driven through its public operations
Next == EngineNext(OneSession)

Spec == Init /\ [][Next]_vars

\* one Session driven directly, and a caller reading its transcript
NextHistory ==
    \/ EngineNext(OneSession)
    \/ \E s \in OneSession : GetHistory(s)
    \/ \E s \in OneSession : CallerMutatesHistory(s)

SpecHistory == Init /\ [][NextHistory]_vars

\* two Sessions in one process, each started, advanced and digested by its own
\* connection, the steps interleaved
NextShared ==
    \/ \E s \in SessionIds, text \in TaskTexts, h \in Handlers : Start(s, text, h)
    \/ \E s \in SessionIds : Advance(s)
    \/ \E s \in SessionIds : Digest(s)

SpecShared == Init /\ [][NextShared]_vars

\* the two strategies driven through their public operations
NextStrategy ==
    \/ TeamInitialize
    \/ \E text \in UserTexts : TeamProcessMessage(text)
    \/ \E text \in UserTexts : DirectProcessMessage(text)
    \/ \E text \in UserTexts, d \in DigestValues : ApplyTaskPrompt(text, d)

SpecStrategy == Init /\ [][NextStrategy]_vars

\* the two strategies with initialize called on both at any time, and the Team
\* strategy's Session started as Session.start is declared
NextSetup ==
    \/ TeamInitialize
    \/ DirectInitialize
    \/ \E text \in UserTexts, h \in Handlers : TeamSessionStart(text, h)
    \/ \E text \in UserTexts : TeamProcessMessage(text)

SpecSetup == Init /\ [][NextSetup]_vars

\* one in-memory handler, its senders, and a caller reading its list
NextConsole ==
    \/ \E message \in ConsoleTexts : ConsoleSendMessage(message)
    \/ \E error \in ConsoleTexts : ConsoleSendError(error)
    \/ ConsoleGetMessages
    \/ CallerMutatesList

SpecConsole == Init /\ [][NextConsole]_vars

\* one connection in Team mode and one in Direct mode, each served by its handler
NextHandler == \E m \in BOOLEAN, data \in Frames : HandleMessage(m, data)

SpecHandler == Init /\ [][NextHandler]_vars

TaskIds == 1..MaxTasks

\* one facade over its lifetime, the clock and the account at the server
NextFacade ==
    \/ Tick
    \/ Construct
    \/ \E force_new \in BOOLEAN : AuthenticateReturns(force_new)
    \/ \E title \in Titles, name \in ProjectNames \cup {NoName} : CreateTask(title, name)
    \/ \E name \in ProjectNames \cup {NoName} : GetTasks(name)
    \/ \E task_id \in TaskIds, title \in NewTitles : UpdateTask(task_id, title)
    \/ \E task_id \in TaskIds : DeleteTask(task_id)
    \/ \E task_id \in TaskIds : CompleteTask(task_id)
    \/ \E name \in ProjectNames : CreateProject(name)
    \/ \E name \in ServerNames, kind \in {"TASK", "INBOX"} : ServerAddsProject(name, kind)
    \/ \E i \in 1..MaxProjects, title \in Titles : ServerAddsTask(i, title)

SpecFacade == Init /\ [][NextFacade]_vars

\* a facade, its credential and the steps of its authorization flow
NextAuth ==
    \/ Tick
    \/ Construct
    \/ \E force_new \in BOOLEAN : Authenticate(force_new)
    \/ HandleTimeout
    \/ HandleRequestWithoutCode
    \/ HandleCallback

SpecAuth == Init /\ [][NextAuth]_vars

\* the authorization utility run from the command line, the clock, and the account
\* whose project list the verification loads
NextMain ==
    \/ Tick
    \/ Main
    \/ MainAttempt
    \/ MainSleepEnds
    \/ \E name \in ServerNames, kind \in {"TASK", "INBOX"} : ServerAddsProject(name, kind)

SpecMain == Init /\ [][NextMain]_vars

\* a facade that creates tasks, in an account where other clients add projects
NextCreate ==
    \/ Construct
    \/ AuthenticateReturns(FALSE)
    \/ \E title \in Titles, name \in ProjectNames \cup {NoName} : CreateTask(title, name)
    \/ \E name \in ServerNames, kind \in {"TASK", "INBOX"} : ServerAddsProject(name, kind)

SpecCreate == Init /\ [][NextCreate]_vars

\* an account with projects of several names, and the two operations that resolve
\* a project name
NextResolve ==
    \/ Construct
    \/ AuthenticateReturns(FALSE)
    \/ \E title \in Titles, name \in ProjectNames : CreateTask(title, name)
    \/ \E name \in ProjectNames \cup {NoName} : GetTasks(name)
    \/ \E name \in ServerNames \cup {"Home"}, kind \in {"TASK", "INBOX"} :
          ServerAddsProject(name, kind)

SpecResolve == Init /\ [][NextResolve]_vars

\* an account with or without a listed INBOX project, and the operations that work
\* on the inbox
NextInbox ==
    \/ Construct
    \/ AuthenticateReturns(FALSE)
    \/ \E title \in Titles : CreateTask(title, NoName)
    \/ GetInboxTasks
    \/ \E name \in ServerNames, kind \in {"TASK", "INBOX"} : ServerAddsProject(name, kind)

SpecInbox == Init /\ [][NextInbox]_vars

\* a facade refreshing its project cache while the account's projects come and go
NextLoad ==
    \/ Construct
    \/ AuthenticateReturns(FALSE)
    \/ LoadProjects
    \/ \E name \in ServerNames \cup {"Home"}, kind \in {"TASK", "INBOX"} :
          ServerAddsProject(name, kind)
    \/ ServerRemovesProject

SpecLoad == Init /\ [][NextLoad]_vars

\* the credential over time: facades are constructed, authorized, and constructed
\* again over the file the authorization left
NextCredential ==
    \/ Tick
    \/ Construct
    \/ \E force_new \in BOOLEAN : Authenticate(force_new)
    \/ HandleTimeout
    \/ HandleRequestWithoutCode
    \/ HandleCallback
    \/ TokenFileDamaged

SpecCredential == Init /\ [][NextCredential]_vars

\* the audio preprocessor called with a payload, within one second of the clock
NextAudio == \E disk \in DiskOutcomes, hearing \in Hearings : ProcessAudio(disk, hearing)

\* the payload is drawn at the start: a recording a client encoded, or a payload
\* that is no encoding
InitAudio == InitExcept /\ inbound \in AudioPayloads

SpecAudio == InitAudio /\ [][NextAudio]_vars

\* two connections, one per mode, whose handlers are fed frames as they arrive
NextWire == \E m \in BOOLEAN, frame \in WireFrames : HandleFrame(m, frame)

SpecWire == Init /\ [][NextWire]_vars

\* one connection of the /ws endpoint of server.py
NextEndpoint == \E frame \in WireFrames : WsReceive(frame)

SpecEndpoint == Init /\ [][NextEndpoint]_vars

\* a facade that updates the tasks other clients put into the account
NextUpdate ==
    \/ Construct
    \/ AuthenticateReturns(FALSE)
    \/ \E task_id \in TaskIds, title \in NewTitles : UpdateTask(task_id, title)
    \/ \E name \in ServerNames, kind \in {"TASK", "INBOX"} : ServerAddsProject(name, kind)
    \/ \E i \in 1..MaxProjects, title \in Titles, details \in TaskDetails :
          ServerAddsTaskWith(i, title, details)

SpecUpdate == Init /\ [][NextUpdate]_vars


(* ------------------------- Session engine: claims --------------------- *)

\* the (content, source) pairs of the text events of a batch, in order
TurnsOf(emitted) ==
    LET texts == SelectSeq(emitted, LAMBDA e : e.kind = "TextMessage")
    IN  [i \in 1..Len(texts) |-> <<texts[i].content, texts[i].source>>]

EndsWithInputRequest(emitted) ==
    emitted # << >> /\ Last(emitted).kind = "UserInputRequestedEvent"

\* C1: start on a Session that is already active changes nothing of the Session
\* (active flag, transcript, message handler, stream handle) and opens no second
\* pipeline stream; no Session ever has more than one pipeline run opened.
C1_StartOnActiveIsNoOp ==
    /\ [](\A s \in SessionIds : units[s].pipe.runs <= 1)
    /\ [][(ret'.op = "start" /\ ret'.sid \in SessionIds
             /\ units[ret'.sid].session.is_active)
          => /\ units'[ret'.sid].session = units[ret'.sid].session
             /\ units'[ret'.sid].pipe = units[ret'.sid].pipe]_vars

\* a start that returned normally on a Session that had already advanced to an input request
C1_Witness ==
    /\ ret.op = "start" /\ ret.raised = None /\ ret.sid = "s1"
    /\ units["s1"].session.is_active
    /\ units["s1"].pipe.phase = "awaiting"
    /\ units["s1"].session.text_history # << >>

\* C2 (as claimed): delivering input while the Session is not AwaitingInput fails
\* with InvalidState and puts nothing on the input queue.
C2_SubmitInputRejectedUnlessAwaiting ==
    [][(ret'.op = "recv_user_input" /\ ret'.sid \in SessionIds
          /\ StateOf(units[ret'.sid]) # "AwaitingInput")
       => /\ ret'.raised = "InvalidState"
          /\ units'[ret'.sid].queue = units[ret'.sid].queue]_vars

\* C3: start on an Idle Session makes it active, records the handler and opens the
\* stream with the text as task; every advance that returns appends the text events
\* it consumed, in order, to the transcript, returns user_input_requested exactly
\* when the events it consumed end in an input request and finished exactly when
\* the stream ended, with the last turn's content as last_message whenever the
\* transcript is not empty.
C3_StartThenAdvanceClassifies ==
    [][/\ (ret'.op = "start" /\ ret'.raised = None /\ ~units[ret'.sid].session.is_active)
          => /\ units'[ret'.sid].session.is_active
             /\ units'[ret'.sid].session.message_handler = ret'.handler
             /\ units'[ret'.sid].session.stream # NoStream
             /\ units'[ret'.sid].pipe.runs = units[ret'.sid].pipe.runs + 1
             /\ units'[ret'.sid].pipe.task = ret'.text
       /\ (ret'.op = "run_until_stop" /\ ret'.raised = None)
          => /\ units'[ret'.sid].session.text_history
                  = units[ret'.sid].session.text_history \o TurnsOf(ret'.emitted)
             /\ (ret'.status = USER_INPUT_REQUESTED) = EndsWithInputRequest(ret'.emitted)
             /\ (ret'.status = FINISHED) = ~EndsWithInputRequest(ret'.emitted)
             /\ units'[ret'.sid].session.text_history # << >>
                  => ret'.last_message = Last(units'[ret'.sid].session.text_history)[1]]_vars

\* Scenario A: the second advance took the user's input, met one more text and the end
\* of the stream, and returned finished with a last message; the first had returned
\* user_input_requested after one text
C3_Witness ==
    /\ ret.op = "run_until_stop" /\ ret.status = FINISHED /\ ret.last_message # None
    /\ ret.emitted \in {<<e>> : e \in TextEvents}
    /\ units["s1"].pipe.got \in UserTexts
    /\ Len(units["s1"].session.text_history) = 2

\* C4 (as claimed): the last_message an advance returns is the content of the last
\* turn of its own Session's transcript, and None when that transcript is empty.
C4_LastMessageIsOwnLastTurn ==
    (ret.op = "run_until_stop" /\ ret.raised = None)
    => ret.last_message =
          (IF units[ret.sid].session.text_history = << >> THEN None
           ELSE Last(units[ret.sid].session.text_history)[1])

\* a Session whose stream is exhausted: every later advance finds no event
Terminal(u) == u.pipe.phase = "ended"

\* C5: once the stream of a Session has ended, no operation on the Session opens a
\* new pipeline run, changes its transcript or makes an advance return
\* user_input_requested, and the Session stays terminal.
C5_FinishedIsTerminal ==
    [][\A s \in SessionIds :
          Terminal(units[s])
          => /\ Terminal(units'[s])
             /\ units'[s].pipe.runs = units[s].pipe.runs
             /\ units'[s].session.stream = units[s].session.stream
             /\ units'[s].session.text_history = units[s].session.text_history
             /\ (ret'.op = "run_until_stop" /\ ret'.sid = s /\ ret'.raised = None)
                  => ret'.status = FINISHED]_vars

\* a start, with a handler, on a Session whose advance had returned finished
C5_Witness ==
    /\ ret.op = "start" /\ ret.raised = None /\ ret.handler \in Handlers
    /\ Terminal(units["s1"])
    /\ lastMsg[FINISHED] # None

OrderedCalls(calls) ==
    SelectSeq(calls, LAMBDA c : c \in {"start", "recv_user_input", "run_until_stop"})

\* C7 (as claimed): every Team process_message performs start (on a Session that is
\* not active, leaving it active with an open stream) or else recv_user_input, each
\* at most once and never both, and then exactly one advance.
C7_StartOrSubmitThenOneAdvance ==
    ret.op = "team.process_message"
    => /\ OrderedCalls(ret.calls) \in {<<"start", "run_until_stop">>,
                                       <<"recv_user_input", "run_until_stop">>}
       /\ (ret.calls # << >> /\ "start" \in {ret.calls[i] : i \in 1..Len(ret.calls)}
             /\ ret.status # FINISHED)
          => /\ team.unit.session.is_active
             /\ team.unit.session.stream # NoStream

\* C9 (as claimed): every Team process_message returns a status that is
\* user_input_requested or finished, and with user_input_requested the advance's
\* last_message.
C9_ReturnsAwaitingOrFinished ==
    ret.op = "team.process_message"
    => /\ ret.raised = None
       /\ ret.status \in SessionResult
       /\ ret.status = USER_INPUT_REQUESTED
            => ret.value = Str(<<lastMsg[USER_INPUT_REQUESTED]>>)

MessageThenBackground(prompt, message, digest) ==
    LET n == Len(message)
        f == Format(digest)
    IN  /\ Len(prompt) >= n + 1 + Len(f)
        /\ SubSeq(prompt, 1, n) = message
        /\ <<prompt[n + 1]>> \in {TeamBackground, DirectBackground}
        /\ SubSeq(prompt, n + 2, n + 1 + Len(f)) = f

C12_LastMessageFromOwnSessionOnly ==
    (ret.op = "run_until_stop" /\ ret.raised = None)
    => ret.last_message \in
          {None} \cup {units[ret.sid].session.text_history[i][1] :
                           i \in 1..Len(units[ret.sid].session.text_history)}

\* the marker, in the letter cases the responses use
HasMarker(text) ==
    \E i \in 1..Len(text) : text[i] \in {"goodbye", "Goodbye", "GOODBYE", LocalizedGoodbye}

\* C13: a Direct process_message that returns has appended exactly one user entry
\* and the one response to the log; it returns finished exactly when the response
\* holds the marker, after exactly one summarizer pass whose answer is the new
\* history digest; otherwise it returns user_input_requested, with no pass and the
\* digest unchanged.
C13_DirectOneExchangeMarkerEnds ==
    [][(ret'.op = "direct.process_message" /\ ret'.raised = None)
       => LET n == Len(direct.history)
          IN  /\ Len(direct'.history) = n + 2
              /\ SubSeq(direct'.history, 1, n) = direct.history
              /\ direct'.history[n + 1] = <<"user", ret'.prompt>>
              /\ direct'.history[n + 2] = <<"assistant", ret'.value.text>>
              /\ ret'.status = (IF HasMarker(ret'.value.text) THEN FINISHED
                                 ELSE USER_INPUT_REQUESTED)
              /\ IF ret'.status = FINISHED
                 THEN ret'.passes = 1 /\ direct'.history_digest = Str(ret'.summary)
                 ELSE ret'.passes = 0 /\ direct'.history_digest = direct.history_digest]_vars

\* a second round that ended on a response with the marker in mixed case
C13_Witness ==
    /\ ret.op = "direct.process_message" /\ ret.status = FINISHED
    /\ Contains(ret.value.text, "Goodbye")
    /\ ret.passes = 1
    /\ Truthy(ret.digest)
    /\ Len(direct.history) >= 4

\* C40: the log of exchanges of the Direct strategy only grows: every step keeps
\* the entries it had, in place, and every process_message, however it ends,
\* appends exactly one user entry followed by one assistant entry, also on the
\* message after a round that returned finished.
C40_ExchangeLogGrowsByOneExchange ==
    [][/\ Len(direct'.history) >= Len(direct.history)
       /\ SubSeq(direct'.history, 1, Len(direct.history)) = direct.history
       /\ ret'.op = "direct.process_message"
          => LET n == Len(direct.history)
             IN  /\ Len(direct'.history) = n + 2
                 /\ direct'.history[n + 1] = <<"user", ret'.prompt>>
                 /\ direct'.history[n + 2][1] = "assistant"]_vars

(* --------------------------- handler: claims -------------------------- *)

\* C14: handle_message never raises: whatever the audio preprocessor, the session
\* start, the pipeline or the summarizer raised inside it is returned as status
\* error with a message naming it, and a call in which nothing was raised does not
\* return status error.
C14_HandlerConvertsExceptions ==
    ret.op = "handle_message"
    => /\ ret.raised = None
       /\ ret.caught # None => ret.status = ErrorStatus /\ ret.value = ErrorMessage(ret.caught)
       /\ ret.caught = None => ret.status \in {None} \cup SessionResult

\* the Direct handler answered a frame after the exchange of the frame before it
\* had failed (the log holds two user entries in a row)
C14_Witness ==
    /\ ret.op = "handle_message" /\ ret.sid = "direct"
    /\ ret.status = USER_INPUT_REQUESTED
    /\ Len(handlers[TRUE].history) = 3
    /\ handlers[TRUE].history[1][1] = "user"
    /\ handlers[TRUE].history[2][1] = "user"

(* --------------------- task client facade: claims --------------------- *)

\* C15: a facade constructed at time now holds the persisted token exactly when
\* now is strictly before its expires_at; at now = expires_at (and later) the token
\* is not taken and the file is removed.
C15_ExpiryInstantIsExpired ==
    [][ret'.op = "construct"
       => /\ (client'.access_token # None)
                = (tokenFile.kind = "token" /\ now < tokenFile.expires_at)
          /\ client'.access_token # None => client'.access_token = tokenFile.access_token
          /\ (tokenFile.kind = "token" /\ now >= tokenFile.expires_at)
                => tokenFile' = AbsentFile]_vars

\* a facade constructed at the very instant its persisted token expires
C15_Witness ==
    /\ ret.op = "construct"
    /\ ret.at > 0 /\ ret.at = ret.expires_at
    /\ client.access_token = None
    /\ tokenFile = AbsentFile

\* C27: a facade holds a token after its construction exactly when the token file
\* existed, could be parsed and was not expired; an expired token is discarded (the
\* file is removed, the facade holds no token) and the construction sends no
\* request to renew it; an absent or unparseable file is left as it is, gives no
\* token and raises no error.
C27_CredentialAtConstruction ==
    [][ret'.op = "construct"
       => LET usable == tokenFile.kind = "token" /\ now < tokenFile.expires_at
              expired == tokenFile.kind = "token" /\ now >= tokenFile.expires_at
          IN  /\ ret'.raised = None
              /\ (client'.access_token # None) = usable
              /\ usable => /\ client'.access_token = tokenFile.access_token
                           /\ tokenFile' = tokenFile
              /\ expired => tokenFile' = AbsentFile /\ ret'.requests = << >>
              /\ tokenFile.kind \in {"absent", "unparseable"}
                    => tokenFile' = tokenFile /\ ret'.requests = << >>]_vars

\* a facade constructed after the token of an earlier authorization had expired:
\* it holds no token and the file is gone
C27_Witness ==
    /\ ret.op = "construct"
    /\ ret.expires_at > 0 /\ ret.at > ret.expires_at
    /\ client.constructed /\ client.access_token = None
    /\ tokenFile = AbsentFile
    /\ ret.requests = << >>

\* C28: initialize called on a strategy that is already initialized leaves its
\* state as it was: for Team the Session with its transcript and active flag, the
\* input channel and the digest, for Direct the log of exchanges and the digest.
C28_InitializeIsIdempotent ==
    [][/\ ret'.op = "team.initialize" /\ team.has_session
            => /\ team'.has_session
               /\ team'.unit = team.unit
               /\ team'.history_digest = team.history_digest
       /\ ret'.op = "direct.initialize" /\ direct.assistant
            => direct' = direct]_vars

\* the entry a send call leaves in the list
EntryOf(call) == IF call.kind = "error" THEN ErrorEntry(call.text) ELSE call.text

\* C29: the list of the in-memory handler holds exactly one entry per send_message or
\* send_error call, in the order of the calls, and a change the caller makes to the
\* list it got from get_messages does not change the handler's list.
C29_ConsoleKeepsEveryCallInOrder ==
    /\ [](/\ Len(console.messages) = Len(console.calls)
          /\ \A i \in 1..Len(console.calls) :
                console.messages[i] = EntryOf(console.calls[i]))
    /\ [][ret'.op = "console.caller" => console'.messages = console.messages]_vars

\* the caller has dropped the last entry of the list it got after three sends, one
\* of them an error, and the handler still holds the three entries
C29_Witness ==
    /\ ret.op = "console.caller"
    /\ Len(console.calls) = 3
    /\ \E i, j \in 1..3 : console.calls[i].kind = "error" /\ console.calls[j].kind = "message"
    /\ Len(console.messages) = 3
    /\ console.copy = SubSeq(console.messages, 1, 2)

IsTextMessage(message) == message.kind = "TextMessage"

\* the transcript entries of the text messages among the events, in their order
TextPairs(emitted) ==
    LET texts == SelectSeq(emitted, IsTextMessage)
    IN  [i \in 1..Len(texts) |-> <<texts[i].content, texts[i].source>>]

\* C32: the transcript of a Session only grows, and by exactly the (content, source)
\* pairs of the text messages an advance consumed, in the order of their emission;
\* no other operation changes it; get_history hands out its entries, and a change
\* the caller makes to the list it got does not change the transcript.
C32_TranscriptIsAppendOnlyInEmissionOrder ==
    [][/\ \A s \in OneSession :
            units'[s].session.text_history =
                IF ret'.op = "run_until_stop" /\ ret'.sid = s
                THEN units[s].session.text_history \o TextPairs(ret'.emitted)
                ELSE units[s].session.text_history
       /\ ret'.op = "get_history"
            => ret'.held = units[ret'.sid].session.text_history]_vars

\* the caller has dropped the last entry of the list it got from a Session whose
\* transcript holds two entries, and the transcript still holds both
C32_Witness ==
    \E s \in OneSession :
        /\ ret.op = "history.caller" /\ ret.sid = s
        /\ Len(units[s].session.text_history) = 2
        /\ ret.held = SubSeq(units[s].session.text_history, 1, 1)

CrudOps ==
    {"create_task", "get_tasks", "update_task", "delete_task", "complete_task",
     "create_project"}

\* C16 (as claimed): an operation of the facade that sends an authorized request
\* does so strictly before the expires_at of the credential.
C16_NoRequestAtOrAfterExpiry ==
    (ret.op \in CrudOps \cup {"construct"} /\ ret.requests # << >>)
    => ret.at < ret.expires_at

\* C17 (as claimed): when the listener's timeout passes without a request that
\* carries a code, the authorization flow ends with AuthorizationTimeout and the
\* listener is closed.
C17_TimeoutEndsAuthorization ==
    [][(ret'.op = "handle_request" /\ ret'.arg = "timeout")
       => /\ ret'.raised = "AuthorizationTimeout"
          /\ auth'.phase = "idle"
          /\ ~auth'.listener]_vars

\* C18 (as claimed): main enters its loop at most max_retries times; it stops
\* before the last iteration only after an iteration in which authorization and
\* verification both succeeded; it has slept retry_delay seconds between every two
\* iterations and not after the last; it prints the diagnostics only after
\* max_retries failed iterations.
C18_RetriesUntilAuthorizedAndVerified ==
    /\ cli.tries <= max_retries
    /\ (cli.phase = "done" /\ cli.tries < max_retries)
          => cli.authorized /\ cli.verified
    /\ cli.phase = "done" => cli.slept = retry_delay * (cli.tries - 1)
    /\ cli.phase = "running" => cli.slept = retry_delay * cli.tries
    /\ cli.diagnostics => cli.tries = max_retries /\ ~cli.authorized

\* the Credential state Valid: a token held, and the time before its expires_at
Valid(c, f, t) == c.access_token # None /\ f.kind = "token" /\ t < f.expires_at

\* C19 (as claimed): each of the six operations, called on a facade whose
\* credential is not Valid (absent or expired), raises the not-authenticated error,
\* sends no request and leaves the project cache and the inbox id as they were.
C19_UnauthenticatedWithoutValidCredential ==
    [][(ret'.op \in CrudOps /\ ~Valid(client, tokenFile, now))
       => /\ ret'.raised = NotAuthenticated
          /\ ret'.requests = << >>
          /\ client'.projects = client.projects
          /\ client'.inbox_id = client.inbox_id]_vars

\* C20 (as claimed): each of create_task, get_tasks, update_task, delete_task and
\* complete_task, called with a token, sends the project-list request of
\* load_projects before any other request.
C20_RefreshesProjectsFirst ==
    (ret.op \in CrudOps \ {"create_project"} /\ ret.raised # NotAuthenticated)
    => /\ ret.requests # << >>
       /\ ret.requests[1].method = "GET"
       /\ ret.requests[1].url = "/project"

\* the positions of the requests of a call that go to one endpoint
RequestsTo(requests, method, url) ==
    {i \in 1..Len(requests) : requests[i].method = method /\ requests[i].url = url}

\* the project cache as the lookup of the call that made ret' saw it
CacheAtLookup == IF ret'.loaded THEN server.projects ELSE client.projects

\* C21: create_task with a project name that no project of the cache matches (the
\* cache as the call's refresh left it) sends exactly one project-create request;
\* when that request is accepted the new project is in the cache after the call,
\* the only task-create request comes after it and carries the new project's id,
\* and the task the call returns is in that project.
C21_UnknownProjectIsCreatedFirst ==
    [][(/\ ret'.op = "create_task" /\ ret'.arg # NoName
        /\ ret'.raised # NotAuthenticated
        /\ FindProject(CacheAtLookup, ret'.arg) = NoId)
       => LET requests == ret'.requests
              creates == RequestsTo(requests, "POST", "/project")
              posts == RequestsTo(requests, "POST", "/task")
              created == Last(server'.projects)
          IN  /\ Cardinality(creates) = 1
              /\ Cardinality(posts) <= 1
              /\ (ret'.raised = HTTPError) = (server'.projects = server.projects)
              /\ ret'.raised = HTTPError => posts = {} /\ client'.projects = CacheAtLookup
              /\ ret'.raised # HTTPError
                    => /\ server'.projects = Append(server.projects, created)
                       /\ created.name = ret'.arg
                       /\ \A p \in creates, q \in posts : p < q
                       /\ \A q \in posts : requests[q].project = created.id
                       /\ Cardinality(posts) = 1
                       /\ \E i \in 1..Len(client'.projects) : client'.projects[i] = created
                       /\ ret'.raised = None
                             => /\ Last(server'.tasks).id = ret'.task
                                /\ Last(server'.tasks).projectId = created.id
                                /\ Len(server'.tasks) = Len(server.tasks) + 1]_vars

\* a task was created in a project that create_task made, although the account
\* already had a project of that name which the stale cache did not hold
C21_Witness ==
    /\ ret.op = "create_task" /\ ret.arg # NoName /\ ret.raised = None
    /\ ~ret.loaded
    /\ Len(ret.requests) = 3
    /\ Len(server.projects) = 2
    /\ LowerName(server.projects[1].name) = LowerName(server.projects[2].name)
    /\ Last(server.tasks).projectId = 2
    /\ \E i \in 1..Len(client.projects) : client.projects[i].id = 2

\* C22: the body update_task submits for {title: X} has title X, the id of the
\* task and the id of the project the task is in, and for each of content, dueDate
\* and priority the value of the existing record if the record has the key, and
\* no such key otherwise; it is the body of the last request of the call.
C22_UpdatePayloadKeepsOtherFields ==
    [][(ret'.op = "update_task" /\ ret'.payload # NoPayload)
       => LET payload == ret'.payload
              existing == TaskById(server, payload.id)
          IN  /\ \E i \in 1..Len(server.tasks) : server.tasks[i].id = payload.id
              /\ payload.title = ret'.arg
              /\ payload.id = existing.id
              /\ payload.projectId = existing.projectId
              /\ \A key \in {"content", "dueDate", "priority"} :
                    /\ (key \in DOMAIN payload) = (key \in DOMAIN existing)
                    /\ key \in DOMAIN existing => payload[key] = existing[key]
              /\ Last(ret'.requests).method = "POST"
              /\ Last(ret'.requests).url = "/task/{id}"
              /\ Last(ret'.requests).task = payload.id
              /\ Last(ret'.requests).project = payload.projectId]_vars

\* an accepted update of a task that had content, due date and priority set
C22_Witness ==
    /\ ret.op = "update_task" /\ ret.raised = None
    /\ DOMAIN ret.payload = {"id", "projectId", "title", "content", "dueDate", "priority"}
    /\ ret.payload.title \in NewTitles
    /\ ret.payload.content = "c1" /\ ret.payload.dueDate = "d1" /\ ret.payload.priority = 1
    /\ \E i \in 1..Len(server.tasks) :
          server.tasks[i].id = ret.payload.id /\ server.tasks[i].title = ret.payload.title

\* C34: create_task and get_tasks called with a project name that equals, ignoring
\* letter case, the name of a project of the cache (as the call's refresh left it)
\* send no project-create request and address their request to a project of that
\* name; when no project of the cache matches, create_task sends a project-create
\* request and get_tasks sends none and reports the project as not found.
C34_ProjectResolvedIgnoringCase ==
    [][(/\ ret'.op \in {"create_task", "get_tasks"} /\ ret'.arg # NoName
        /\ ret'.raised # NotAuthenticated)
       => LET requests == ret'.requests
              cache == CacheAtLookup
              matches == {i \in 1..Len(cache) :
                             LowerName(cache[i].name) = LowerName(ret'.arg)}
              creates == RequestsTo(requests, "POST", "/project")
              addressed == {i \in 1..Len(requests) : requests[i].project # NoId}
          IN  /\ matches # {}
                    => /\ creates = {}
                       /\ server'.projects = server.projects
                       /\ Cardinality(addressed) = 1
                       /\ \A i \in addressed :
                             \E j \in matches : requests[i].project = cache[j].id
              /\ matches = {}
                    => /\ ret'.op = "create_task" => Cardinality(creates) = 1
                       /\ ret'.op = "get_tasks"
                             => /\ creates = {} /\ addressed = {}
                                /\ ret'.raised = ProjectNotFound]_vars

\* a task created under the name "work" in the account's project "Work", the
\* second project of the cache, with no project created
C34_Witness ==
    /\ ret.op = "create_task" /\ ret.arg = "work" /\ ret.raised = None
    /\ RequestsTo(ret.requests, "POST", "/project") = {}
    /\ Len(server.projects) = 2
    /\ server.projects[1].name = "Home" /\ server.projects[2].name = "Work"
    /\ client.projects = server.projects
    /\ Last(server.tasks).id = ret.task
    /\ Last(server.tasks).projectId = server.projects[2].id

\* C35: update_task, delete_task and complete_task report a 401 answer to one of
\* their requests, the lookups of the task in the cached projects included, as a
\* failure of the credential, never as a task that was not found and never as a
\* success.
C35_RejectionSurfacesAsUnauthenticated ==
    [][(ret'.op \in {"update_task", "delete_task", "complete_task"} /\ ret'.rejected)
       => ret'.raised \in {NotAuthenticated, InvalidToken}]_vars

\* the requests that create the temporary task of the inbox fallback
Throwaways(requests) ==
    {i \in RequestsTo(requests, "POST", "/task") : requests[i].project = InboxAlias}

\* C36: a refresh of the projects sets the inbox id to the id of the first listed
\* INBOX project; create_task without a project name and get_inbox_tasks, called
\* while no inbox id is known, send exactly one request creating a temporary task,
\* and when it is accepted, the delete of that task in the project the server
\* filed it under, whose id is the inbox id afterwards; called while an inbox id is
\* known they create no temporary task.
C36_InboxResolvedOrObtainedOnce ==
    [][/\ (/\ ret'.op \in {"construct", "create_task"}
           /\ ret'.loaded
           /\ FirstInbox(server.projects) # NoId)
          => client'.inbox_id = FirstInbox(server.projects)
       /\ (\/ (ret'.op = "get_inbox_tasks" /\ ret'.raised # AccessTokenNotSet)
           \/ (ret'.op = "create_task" /\ ret'.arg = NoName
                  /\ ret'.raised # NotAuthenticated))
          => LET requests == ret'.requests
                 known == IF ret'.op = "get_inbox_tasks" THEN client.inbox_id
                          ELSE IF FirstInbox(CacheAtLookup) # NoId
                          THEN FirstInbox(CacheAtLookup) ELSE client.inbox_id
                 temps == Throwaways(requests)
                 deletes == RequestsTo(requests, "DELETE", "/project/{id}/task/{id}")
             IN  /\ known # NoId => temps = {} /\ deletes = {}
                 /\ known = NoId
                       => /\ Cardinality(temps) = 1
                          /\ ret'.raised # HTTPError
                                => /\ Cardinality(deletes) = 1
                                   /\ \A t \in temps, d \in deletes :
                                         /\ t < d
                                         /\ requests[d].project = ServerInbox(server)
                                         /\ requests[d].task = server.born + 1
                                   /\ client'.inbox_id = ServerInbox(server)]_vars

\* C37: the Team process_message that follows one in which the advance or the
\* digest raised hands its message to a live run: it starts a new run with it, or
\* the run of the Session was waiting for input and takes it.
C37_MessageAfterFailureReachesLiveRun ==
    [][(/\ ret.op = "team.process_message" /\ ret.raised = "PipelineFailure"
        /\ ret'.op = "team.process_message")
       => \/ Contains(ret'.calls, "start") /\ ret'.raised # "TypeError"
          \/ /\ Contains(ret'.calls, "recv_user_input")
             /\ team.unit.pipe.phase = "awaiting"
             /\ team.unit.queue = << >>]_vars

C33_UpdateKeepsEveryFieldNotNamed ==
    [][(ret'.op = "update_task" /\ ret'.payload # NoPayload)
       => LET payload == ret'.payload
              existing == TaskById(server, payload.id)
          IN  \A key \in DOMAIN existing \ {"title"} :
                 key \in DOMAIN payload /\ payload[key] = existing[key]]_vars

(* ----------------------- audio preprocessor: claims ------------------- *)

\* C23: process_audio called with data:<mime>;base64,<base64(b)> decodes the
\* payload to exactly b, for every byte string b, and when it goes on to the
\* transcription, the bytes read from the temporary file are b.
C23_DecodeRecoversBytes ==
    \A mime \in Mimes, b \in ByteStrings :
        (ret.op = "process_audio" /\ ret.text = DataUrl(mime, b))
        => /\ ret.decoded
           /\ ret.raised \notin {IndexError, DecodeError}
           /\ ret.audio_bytes = b
           /\ ret.transcribed => ret.handed = b

\* a recording of four bytes, sent with a MIME type that has a parameter, was
\* decoded, stored and transcribed
C23_Witness ==
    /\ ret.op = "process_audio" /\ ret.raised = None /\ ret.transcribed
    /\ Len(ret.audio_bytes) = 4
    /\ \E i, j \in 1..4 : ret.audio_bytes[i] = 77 /\ ret.audio_bytes[j] = 255
    /\ ret.handed = ret.audio_bytes
    /\ \E i \in 1..Len(ret.text) : ret.text[i] = "="
    /\ Len(Split(ret.text, ";")) = 3

\* C24 (as claimed): a process_audio call whose payload decodes to zero bytes
\* returns without invoking the transcription and without raising.
C24_ZeroBytesSkipTranscription ==
    (ret.op = "process_audio" /\ ret.decoded /\ ret.audio_bytes = << >>)
    => ~ret.transcribed /\ ret.raised = None

\* C25 (as claimed): when a process_audio call that created its temporary file
\* has ended, however it ended, the file does not exist.
C25_TemporaryFileAlwaysRemoved ==
    (ret.op = "process_audio" /\ ret.stored)
    => \A f \in audio_dir : f.name # ret.at

(* ------------------------ inbound frames: claims ---------------------- *)

\* a payload in canonical base64: quads of alphabet characters, padding only at
\* the end of the last quad
ValidBase64(chars) ==
    /\ Len(chars) % 4 = 0
    /\ \A i \in 1..Len(chars) :
          \/ SextetOf(chars[i]) >= 0
          \/ /\ chars[i] = Pad
             /\ i >= Len(chars) - 1
             /\ chars[Len(chars)] = Pad

\* an audio frame with no comma-separated payload or with a payload that is not
\* valid base64
Malformed(frame) ==
    /\ IsAudio(frame)
    /\ \/ Len(Split(frame, ",")) < 2
       \/ ~ValidBase64(Split(frame, ",")[2])

\* C26 (as claimed): a malformed audio frame is dropped: handle_message hands back
\* nothing to send for it and leaves the handler, with its Session and its
\* strategy state, as it was.
C26_MalformedAudioFrameDropped ==
    [][(ret'.op = "handle_frame" /\ Malformed(ret'.text))
       => /\ ret'.status = None
          /\ ret'.value = NoValue
          /\ handlers' = handlers
          /\ lastMsg' = lastMsg]_vars

\* C30 (as claimed): a frame goes through the audio decoding exactly when it begins
\* with the prefix data:, and a frame without the prefix is never decoded to bytes
\* nor written to a temporary file.
C30_FramesRoutedByPrefix ==
    ret.op \in {"handle_frame", "ws_frame"}
    => /\ ret.heard = IsAudio(ret.text)
       /\ ~IsAudio(ret.text)
             => /\ ~ret.decoded /\ ~ret.stored /\ ~ret.transcribed
                /\ ret.caught \notin {IndexError, DecodeError}

====
